---- MODULE Spec2Model ----
(***************************************************************************)
(* Translation orchestration engine of MineTranslator.                     *)
(*                                                                         *)
(*   ApiKeyManager        (CredentialPool)          PoolSpec               *)
(*   AiTranslationService.translateText             HostedSpec, HostedFair *)
(*     with OpenAIService  (HostedProviderClient)                          *)
(*   TranslationService   (TranslationOrchestrator                         *)
(*     with its translationCache, the ResultCache)  Spec, FirstSpec        *)
(*                                                                         *)
(* An async function is cut at its awaits: one action is the completion of *)
(* the awaited I/O followed by the synchronous code up to the next await.  *)
(***************************************************************************)
EXTENDS Integers, Sequences, FiniteSets, TLC

VARIABLES
  apiKeys,          \* ApiKeyManager.apiKeys
  currentKeyIndex,  \* ApiKeyManager.currentKeyIndex (0-based, as in the code)
  poolOut,          \* result of the last ApiKeyManager call made by a client
  poolLog,          \* history: indices selected by switchKey since construction/reset
  apiLimits,        \* OpenAIService.apiLimits (NoLimits is null)
  tt,               \* translateText activations, one frame per request
  translationCache, \* TranslationService.translationCache, in insertion order
  req,              \* TranslationService.translate activations
  last,             \* what the translate call that finished last gave its caller
  stats,            \* <<what getCacheStats returned>>, if it was the call before
  setLog,           \* history: entries set since the cache was last empty
  health,           \* the checkHealth activation, with the probes it made
  governor,         \* OllamaService.lastRequestTime, the clock and the applyRateLimit activations
  parsing,          \* <<a response text with what parseTranslationResponse made of it>>
  ollama            \* the OllamaService.translate activation, with its HTTP calls

poolVars   == <<apiKeys, governor, parsing, currentKeyIndex, poolOut, poolLog>>
hostedVars == <<apiLimits, tt>>
orchVars   == <<translationCache, req, last, stats, setLog>>
vars       == <<apiKeys, governor, parsing, currentKeyIndex, poolOut, poolLog, apiLimits, tt,
                translationCache, req, last, stats, setLog, health, ollama>>

Min(a, b) == IF a < b THEN a ELSE b
Max(a, b) == IF a > b THEN a ELSE b
Range(s)  == {s[i] : i \in 1..Len(s)}

(***************************************************************************)
(* Bounds of the model.                                                    *)
(***************************************************************************)
MaxPool   == 2    \* credentials in the pool: 0..MaxPool
MaxQuota  == 1    \* a quota probe reports 0..MaxQuota remaining requests
MaxKeys   == 2    \* keys of one batch: 1..MaxKeys
MaxFirst  == 3    \* keys of the batch of a first call: 1..MaxFirst
MaxCalls  == 2    \* translate calls of a traced session
MaxWarm   == 2    \* keys of a batch of a traced session: 1..MaxWarm
cacheSize == 3    \* TranslationService.cacheSize, scaled down from 10000

\* config.limits.maxOllamaRetries and config.batchProcessing.ollama
\* .delayBetweenBatches, as configured by default
maxOllamaRetries == 2
retryDelay       == 3000

KeyNames == {"k1", "k2", "k3"}
ConfiguredKeys == <<"k1", "k2", "k3", "k4">>
None     == "none"

(***************************************************************************)
(* ApiKeyManager                                                           *)
(***************************************************************************)
HasKeys(keys) == Len(keys) > 0

GetKeyCount(keys) == Len(keys)

\* a getter without the test for an empty pool: apiKeys[currentKeyIndex]
CurrentKeyUnguarded(keys, idx) ==
  [ok |-> TRUE, error |-> None, key |-> IF idx < Len(keys) THEN keys[idx + 1] ELSE None]

\* get currentKey: the secret at the cursor, or the NO_API_KEYS_AVAILABLE error
CurrentKey(keys, idx) ==
  IF Len(keys) = 0
    THEN [ok |-> FALSE, error |-> "NO_API_KEYS_AVAILABLE", key |-> None]
    ELSE [ok |-> TRUE, error |-> None, key |-> keys[idx + 1]]

\* a cursor that stops at the last credential instead of wrapping
SwitchKeyNoWrap(keys, idx) == Min(idx + 1, Len(keys) - 1)

\* switchKey: the cursor after the call (callers check the pool is not empty)
SwitchKey(keys, idx) == (idx + 1) % Len(keys)

PoolLogCap == 2 * MaxPool + 1

\* what an ApiKeyManager call leaves alone
PoolRest ==
  UNCHANGED <<apiKeys, governor, parsing, apiLimits, tt, translationCache, req, last, stats, setLog,
              health, ollama>>

\* what a step of translateText leaves alone
HostedRest ==
  UNCHANGED <<apiKeys, governor, parsing, poolOut, poolLog, translationCache, req, last, stats, setLog,
              health, ollama>>

\* no call of translate has finished yet
NoLast == [status |-> "none"]

\* nothing returned or thrown yet
NoOut == [threw |-> FALSE, kind |-> "none"]

\* no checkHealth call yet; baseURL: is config.api.ollama.baseURL set
IdleHealth(baseURL) ==
  [pc |-> "idle", caller |-> None, baseURL |-> baseURL, openrouter |-> FALSE,
   ollama |-> FALSE, probes |-> <<>>, out |-> NoOut]

\* no OllamaService.translate call yet, maxRetries being config.limits.maxOllamaRetries
IdleOllama(maxRetries) ==
  [pc |-> "idle", maxRetries |-> maxRetries, retries |-> 0, calls |-> 0,
   delays |-> <<>>, errors |-> <<>>, answer |-> <<>>, out |-> NoOut]

\* the clients of the health checks and of Ollama, as constructed
\* Date.now() when the service is constructed, and the latest time modelled
StartTime == 1000
MaxTime == 3000
\* the clock advances in steps of TickMs
TickMs == 500
\* concurrent callers of OllamaService.translate
Requesters == 2

minRequestInterval == 1000

\* OllamaService as constructed (lastRequestTime = 0, line 27), no caller yet
IdleGovernor ==
  [now |-> StartTime, lastRequestTime |-> 0, stamps |-> <<>>,
   ar |-> [p \in 1..Requesters |-> [pc |-> "idle", wake |-> 0]]]

\* no response text has been parsed
NoParse == <<>>

ProbesIdle ==
  /\ governor = IdleGovernor
  /\ parsing = NoParse
  /\ health = IdleHealth(TRUE)
  /\ ollama = IdleOllama(maxOllamaRetries)

\* the other components, as constructed
OrchIdle ==
  /\ ProbesIdle
  /\ translationCache = <<>>
  /\ req = <<>>
  /\ last = NoLast
  /\ stats = <<>>
  /\ setLog = <<>>

PoolInit ==
  /\ apiLimits = None
  /\ tt = <<>>
  /\ OrchIdle
  /\ apiKeys \in UNION {[1..n -> KeyNames] : n \in 0..MaxPool}
  /\ currentKeyIndex = 0
  /\ poolOut = [op |-> "new", ok |-> TRUE, error |-> None, key |-> None]
  /\ poolLog = <<>>

\* a client reads currentKey
PoolCurrentKey ==
  /\ poolOut' = [op |-> "currentKey"] @@ CurrentKey(apiKeys, currentKeyIndex)
  /\ UNCHANGED <<currentKeyIndex, poolLog>>
  /\ PoolRest

\* a client calls switchKey()
PoolSwitchKey ==
  /\ Len(poolLog) < PoolLogCap
  /\ IF ~HasKeys(apiKeys)
       THEN /\ poolOut' = [op |-> "switchKey", ok |-> FALSE,
                           error |-> "NO_API_KEYS_AVAILABLE", key |-> None]
            /\ UNCHANGED <<currentKeyIndex, poolLog>>
       ELSE /\ currentKeyIndex' = SwitchKey(apiKeys, currentKeyIndex)
            /\ poolOut' = [op |-> "switchKey"]
                            @@ CurrentKey(apiKeys, currentKeyIndex')
            /\ poolLog' = Append(poolLog, currentKeyIndex')
  /\ PoolRest

\* a client calls reset()
PoolReset ==
  /\ currentKeyIndex' = 0
  /\ poolOut' = [op |-> "reset", ok |-> TRUE, error |-> None, key |-> None]
  /\ poolLog' = <<>>
  /\ PoolRest

(***************************************************************************)
(* OpenAIService: quota state of the credential in use                     *)
(***************************************************************************)
NoLimits == [present |-> FALSE, requests |-> 0, interval |-> None]

Intervals == {"60s", "5s"}

\* the characters of an interval
StringChars(interval) ==
  IF interval = "60s" THEN <<"6", "0", "s">> ELSE <<"5", "s">>

Digits == <<"0", "1", "2", "3", "4", "5", "6", "7", "8", "9">>

IsDigit(c) == \E d \in DOMAIN Digits : Digits[d] = c

DigitValue(c) == (CHOOSE d \in DOMAIN Digits : Digits[d] = c) - 1

\* String.prototype.replace(c, ''): the string without the first c
RECURSIVE ReplaceFirst(_, _)
ReplaceFirst(chars, c) ==
  IF chars = <<>> THEN <<>>
  ELSE IF Head(chars) = c THEN Tail(chars)
  ELSE <<Head(chars)>> \o ReplaceFirst(Tail(chars), c)

\* parseInt(chars, 10) of a string that starts with a digit: the number its
\* leading digits write
RECURSIVE ParseIntFrom(_, _)
ParseIntFrom(chars, n) ==
  IF chars = <<>> \/ ~IsDigit(Head(chars)) THEN n
  ELSE ParseIntFrom(Tail(chars), 10 * n + DigitValue(Head(chars)))

ParseInt(chars) == ParseIntFrom(chars, 0)

\* a sleep of as many milliseconds as the interval has seconds
IntervalSeconds(interval) == ParseInt(ReplaceFirst(StringChars(interval), "s"))

\* waitForRateLimit, line 69: the sleep, in milliseconds
IntervalMs(interval) == ParseInt(ReplaceFirst(StringChars(interval), "s")) * 1000

\* what GET /auth/key may answer: a failure, or {rate_limit: {requests, interval}}
ProbeReplies ==
  {[ok |-> FALSE, requests |-> 0, interval |-> None]}
    \cup {[ok |-> TRUE, requests |-> q, interval |-> i] :
            q \in 0..MaxQuota, i \in Intervals}

\* checkApiLimits on a 2xx answer: this.apiLimits = data.data
CheckApiLimits(reply) ==
  [present |-> TRUE, requests |-> reply.requests, interval |-> reply.interval]

\* waitForRateLimit: TRUE when the request must sleep and probe again
MustWaitForRateLimit(limits) == limits.present /\ limits.requests <= 0

\* a decrement that does not stop at 0
DecrementUnclamped(limits) ==
  IF limits.present THEN [limits EXCEPT !.requests = limits.requests - 1] ELSE limits

DecrementRequestCount(limits) ==
  IF limits.present
    THEN [limits EXCEPT !.requests = Max(0, limits.requests - 1)]
    ELSE limits

(***************************************************************************)
(* AiTranslationService.translateText                                      *)
(***************************************************************************)
maxRetriesPerKey == 3

\* saturation of the history counters
IterCap == maxRetriesPerKey * MaxPool + 1

\* a completion's content: a string over these characters
Chars    == {" ", "x"}
Contents == UNION {[1..n -> Chars] : n \in 0..2}

IsSpace(c) == c = " "

RECURSIVE TrimStart(_)
TrimStart(s) ==
  IF s # <<>> /\ IsSpace(Head(s)) THEN TrimStart(Tail(s)) ELSE s

RECURSIVE TrimEnd(_)
TrimEnd(s) ==
  IF s # <<>> /\ IsSpace(s[Len(s)])
    THEN TrimEnd(SubSeq(s, 1, Len(s) - 1))
    ELSE s

\* String.prototype.trim
Trim(s) == TrimEnd(TrimStart(s))

\* messages of a failed completion request
ErrorMessages == {"rate limit", "429", "quota", "server error"}
NoContentMessage == "No content in AI response"

CompletionReplies ==
  {[ok |-> TRUE, content |-> c, message |-> None] : c \in Contents}
    \cup {[ok |-> FALSE, content |-> <<>>, message |-> m] : m \in ErrorMessages}

\* the test of lines 258-260 on error.message
IsRateLimitMessage(m) == m \in {"rate limit", "429", "quota"}

NoReq    == [key |-> -1, outcome |-> None, content |-> <<>>, afterProbeFailure |-> FALSE]
NoResult == [kind |-> None, text |-> <<>>]

IdleFrame ==
  [pc |-> "idle", totalAttempts |-> 0, maxTotalAttempts |-> 0, retries |-> 0,
   key |-> 0, result |-> NoResult, paceMs |-> 0,
   \* history
   startIndex |-> 0, outerIters |-> 0, prevReq |-> NoReq, lastReq |-> NoReq,
   probeFailed |-> FALSE, sinceSwitch |-> 0, probeKey |-> 0]

Running(f) == f.pc \notin {"idle", "returned", "failed"}

Throw(f, kind) == [f EXCEPT !.pc = "failed", !.result = [kind |-> kind, text |-> <<>>]]

\* the while test of line 205, then the quota probe of line 207 is issued
\* with the credential at the cursor
\* (history: probeKey is the credential of the call's most recent probe)
LoopHead(f, idx) ==
  IF f.totalAttempts < f.maxTotalAttempts
    THEN [f EXCEPT !.pc = "probe", !.key = idx, !.probeKey = idx,
                   !.outerIters = Min(f.outerIters + 1, IterCap)]
    ELSE Throw(f, "MAX_ATTEMPTS_EXCEEDED")

\* an outer catch that switches the credential before it looks at the count
OuterCatchRotatesFirst(f, keys, idx) ==
  LET ta == f.totalAttempts + 1 IN
  IF ta >= f.maxTotalAttempts
    THEN [f |-> Throw([f EXCEPT !.totalAttempts = ta, !.probeFailed = TRUE],
                      "API_ERROR"),
          idx |-> SwitchKey(keys, idx)]
    ELSE [f |-> [f EXCEPT !.totalAttempts = ta, !.pc = "cooldownOuter",
                          !.probeFailed = TRUE, !.sinceSwitch = 0],
          idx |-> SwitchKey(keys, idx)]

\* the outer catch, lines 271-284
OuterCatch(f, keys, idx) ==
  LET ta == f.totalAttempts + 1 IN
  IF ta >= f.maxTotalAttempts
    THEN [f |-> Throw([f EXCEPT !.totalAttempts = ta, !.probeFailed = TRUE],
                      "API_ERROR"),
          idx |-> idx]
    ELSE [f |-> [f EXCEPT !.totalAttempts = ta, !.pc = "cooldownOuter",
                          !.probeFailed = TRUE, !.sinceSwitch = 0],
          idx |-> SwitchKey(keys, idx)]

\* createInstance and chat.completions.create, lines 230-236
\* (history: sinceSwitch counts the completion requests of the call since its
\* last switchKey)
IssueCompletion(f, idx) ==
  [f EXCEPT !.pc = "complete", !.key = idx, !.sinceSwitch = Min(@ + 1, IterCap)]

\* line 227, then the first completion request
StartInner(f, idx) == IssueCompletion([f EXCEPT !.retries = 0], idx)

\* an inner catch that cools down without switching the credential
InnerCatchNoRotate(f, keys, idx, message) ==
  LET n == f.retries + 1 IN
  IF IsRateLimitMessage(message) \/ n >= maxRetriesPerKey
    THEN [f |-> [f EXCEPT !.retries = n, !.pc = "cooldown"], idx |-> idx]
    ELSE [f |-> [f EXCEPT !.retries = n, !.pc = "backoff"], idx |-> idx]

\* an inner catch that switches the credential only when the cursor is still on
\* the credential of the failed request
InnerCatchOnce(f, keys, idx, message) ==
  LET n == f.retries + 1 IN
  IF IsRateLimitMessage(message) \/ n >= maxRetriesPerKey
    THEN [f |-> [f EXCEPT !.retries = n, !.pc = "cooldown"],
          idx |-> IF f.key = idx THEN SwitchKey(keys, idx) ELSE idx]
    ELSE [f |-> [f EXCEPT !.retries = n, !.pc = "backoff"], idx |-> idx]

\* an inner catch that switches the credential on a rate-limit error only
InnerCatchPatient(f, keys, idx, message) ==
  LET n == f.retries + 1 IN
  IF IsRateLimitMessage(message)
    THEN [f |-> [f EXCEPT !.retries = n, !.pc = "cooldown", !.sinceSwitch = 0],
          idx |-> SwitchKey(keys, idx)]
    ELSE [f |-> [f EXCEPT !.retries = Min(n, maxRetriesPerKey), !.pc = "backoff"],
          idx |-> idx]

\* an inner catch that switches the credential and tries again without
\* leaving the inner loop
InnerCatchNoBreak(f, keys, idx, message) ==
  LET n == f.retries + 1 IN
  IF IsRateLimitMessage(message) \/ n >= maxRetriesPerKey
    THEN [f |-> [f EXCEPT !.retries = 0, !.pc = "backoff", !.sinceSwitch = 0,
                          !.totalAttempts = Min(@ + 1, f.maxTotalAttempts)],
          idx |-> SwitchKey(keys, idx)]
    ELSE [f |-> [f EXCEPT !.retries = n, !.pc = "backoff"], idx |-> idx]

\* the inner catch, lines 250-268
InnerCatch(f, keys, idx, message) ==
  LET n == f.retries + 1 IN
  IF IsRateLimitMessage(message) \/ n >= maxRetriesPerKey
    THEN [f |-> [f EXCEPT !.retries = n, !.pc = "cooldown", !.sinceSwitch = 0],
          idx |-> SwitchKey(keys, idx)]
    ELSE [f |-> [f EXCEPT !.retries = n, !.pc = "backoff"], idx |-> idx]

Outcome(reply) ==
  IF reply.ok /\ reply.content # <<>> THEN "ok"
  ELSE IF ~reply.ok /\ IsRateLimitMessage(reply.message) THEN "rate"
  ELSE "other"

\* history: the two most recent completion requests of the call, and whether a
\* quota probe has failed since the most recent one
Logged(f, reply) ==
  [f EXCEPT !.prevReq = f.lastReq,
            !.lastReq = [key |-> f.key, outcome |-> Outcome(reply),
                         content |-> reply.content,
                         afterProbeFailure |-> f.probeFailed],
            !.probeFailed = FALSE]

HostedInit ==
  /\ apiKeys \in {SubSeq(ConfiguredKeys, 1, n) : n \in 0..MaxPool}
  /\ currentKeyIndex = 0
  /\ apiLimits = NoLimits
  /\ tt = [r \in {1} |-> IdleFrame]
  /\ poolOut = None
  /\ poolLog = <<>>
  /\ OrchIdle

\* translateText is called: lines 198-207
TranslateTextCall(r) ==
  /\ ~Running(tt[r])
  /\ IF ~HasKeys(apiKeys)
       THEN tt' = [tt EXCEPT ![r] = Throw(IdleFrame, "ServiceUnavailable")]
       ELSE tt' = [tt EXCEPT ![r] =
              LoopHead([IdleFrame EXCEPT
                          !.maxTotalAttempts = maxRetriesPerKey * GetKeyCount(apiKeys),
                          !.startIndex = currentKeyIndex],
                       currentKeyIndex)]
  /\ UNCHANGED <<currentKeyIndex, apiLimits>>
  /\ HostedRest

\* the quota probe of line 207 is answered
ProbeDone(r) ==
  /\ tt[r].pc = "probe"
  /\ \E reply \in ProbeReplies :
       IF reply.ok
         THEN /\ apiLimits' = CheckApiLimits(reply)
              /\ tt' = [tt EXCEPT ![r] =
                     IF MustWaitForRateLimit(apiLimits')
                       THEN [tt[r] EXCEPT !.pc = "pace",
                                          !.paceMs = IntervalMs(apiLimits'.interval)]
                       ELSE StartInner(tt[r], currentKeyIndex)]
              /\ UNCHANGED currentKeyIndex
         ELSE LET c == OuterCatch(tt[r], apiKeys, currentKeyIndex) IN
              /\ tt' = [tt EXCEPT ![r] = c.f]
              /\ currentKeyIndex' = c.idx
              /\ UNCHANGED apiLimits
  /\ HostedRest

\* the sleep of waitForRateLimit is over: the quota is probed again
PaceDone(r) ==
  /\ tt[r].pc = "pace"
  /\ tt' = [tt EXCEPT ![r] = [tt[r] EXCEPT !.pc = "reprobe", !.key = currentKeyIndex,
                                          !.probeKey = currentKeyIndex]]
  /\ UNCHANGED <<currentKeyIndex, apiLimits>>
  /\ HostedRest

\* the probe of waitForRateLimit is answered
ReprobeDone(r) ==
  /\ tt[r].pc = "reprobe"
  /\ \E reply \in ProbeReplies :
       IF reply.ok
         THEN /\ apiLimits' = CheckApiLimits(reply)
              /\ tt' = [tt EXCEPT ![r] = StartInner(tt[r], currentKeyIndex)]
              /\ UNCHANGED currentKeyIndex
         ELSE LET c == OuterCatch(tt[r], apiKeys, currentKeyIndex) IN
              /\ tt' = [tt EXCEPT ![r] = c.f]
              /\ currentKeyIndex' = c.idx
              /\ UNCHANGED apiLimits
  /\ HostedRest

\* the completion request is answered: lines 238-268
CompleteDone(r) ==
  /\ tt[r].pc = "complete"
  /\ \E reply \in CompletionReplies :
       LET f == Logged(tt[r], reply) IN
       IF reply.ok /\ reply.content # <<>>
         THEN /\ tt' = [tt EXCEPT ![r] =
                     [f EXCEPT !.pc = "returned",
                               !.result = [kind |-> "ok", text |-> Trim(reply.content)]]]
              /\ apiLimits' = DecrementRequestCount(apiLimits)
              /\ UNCHANGED currentKeyIndex
         ELSE LET c == InnerCatch(f, apiKeys, currentKeyIndex,
                                  IF reply.ok THEN NoContentMessage ELSE reply.message) IN
              /\ tt' = [tt EXCEPT ![r] = c.f]
              /\ currentKeyIndex' = c.idx
              /\ UNCHANGED apiLimits
  /\ HostedRest

\* sleep(4000) of line 263 is over: break, and the outer loop goes round
CooldownDone(r) ==
  /\ tt[r].pc = "cooldown"
  /\ tt' = [tt EXCEPT ![r] = LoopHead(tt[r], currentKeyIndex)]
  /\ UNCHANGED <<currentKeyIndex, apiLimits>>
  /\ HostedRest

\* sleep(2000) of line 267 is over: the inner loop goes round
BackoffDone(r) ==
  /\ tt[r].pc = "backoff"
  /\ tt' = [tt EXCEPT ![r] = IssueCompletion(tt[r], currentKeyIndex)]
  /\ UNCHANGED <<currentKeyIndex, apiLimits>>
  /\ HostedRest

\* sleep(4000) of line 283 is over: the outer loop goes round
CooldownOuterDone(r) ==
  /\ tt[r].pc = "cooldownOuter"
  /\ tt' = [tt EXCEPT ![r] = LoopHead(tt[r], currentKeyIndex)]
  /\ UNCHANGED <<currentKeyIndex, apiLimits>>
  /\ HostedRest

(***************************************************************************)
(* Insertion-ordered maps: a JS Map, and an object with string keys, list  *)
(* their entries in the order the keys were first set.                     *)
(***************************************************************************)
Entry(k, v) == [k |-> k, v |-> v]

OKeys(m) == [i \in 1..Len(m) |-> m[i].k]

OKeySet(m) == {m[i].k : i \in 1..Len(m)}

OHas(m, k) == k \in OKeySet(m)

OSize(m) == Len(m)

\* m[k] for a key that is present
OGet(m, k) == m[CHOOSE i \in 1..Len(m) : m[i].k = k].v

\* m[k] = v: a present key keeps its place
OSet(m, k, v) ==
  IF OHas(m, k)
    THEN [i \in 1..Len(m) |-> IF m[i].k = k THEN Entry(k, v) ELSE m[i]]
    ELSE Append(m, Entry(k, v))

\* {...a, ...b}
RECURSIVE OMerge(_, _)
OMerge(a, b) ==
  IF b = <<>> THEN a ELSE OMerge(OSet(a, Head(b).k, Head(b).v), Tail(b))

\* a JS value used as a condition
Truthy(v) == v # ""

(***************************************************************************)
(* Requests                                                                *)
(***************************************************************************)
KeyU == {"a", "b"}

SupportedLanguages == {"en", "ru"}

\* the source text of each key, per source language
SourceText(lang) ==
  IF lang = "en" THEN [k \in KeyU |-> IF k = "a" THEN "Hello" ELSE ""]
                 ELSE [k \in KeyU |-> IF k = "a" THEN "Privet" ELSE "Mir"]

KeySeqs(max) == UNION {[1..n -> KeyU] : n \in 1..max}

\* the fields translate reads before its first await
ValidHeads(max) ==
  {[sourceLang |-> l[1], targetLang |-> l[2], keys |-> ks, texts |-> SourceText(l[1])] :
     l \in {<<"en", "ru">>, <<"ru", "en">>}, ks \in KeySeqs(max)}

\* an array field the request does not have
NoArray == <<"undefined">>

\* the fields translate reads after it: None and NoArray are absent fields
ValidOptions ==
  {[methods |-> m, fallbackOptions |-> f, aiProvider |-> p] :
     m \in {NoArray, <<"local">>, <<"ai">>, <<"ai", "local">>},
     f \in {NoArray, <<"yes">>},
     p \in {None, "ollama"}}

NoOptions == [methods |-> NoArray, fallbackOptions |-> NoArray, aiProvider |-> None]

\* one request per rule of validateTranslationRequest
InvalidBatches ==
  LET ok == [sourceLang |-> "en", targetLang |-> "ru", keys |-> <<"a">>,
             texts |-> SourceText("en")] @@ NoOptions IN
  { [ok EXCEPT !.targetLang = "en"],
    [ok EXCEPT !.targetLang = "xx"],
    [ok EXCEPT !.keys = <<>>],
    [ok EXCEPT !.texts = [k \in {"b"} |-> "x"]],
    [ok EXCEPT !.methods = <<"ai", "ai">>],
    [ok EXCEPT !.methods = <<"google">>],
    [ok EXCEPT !.methods = <<>>] }

IsArray(x) == x # NoArray

Duplicates(s) == \E i, j \in 1..Len(s) : i # j /\ s[i] = s[j]

\* a validator that takes any language code
ValidateLanguageAny(langCode) == None

\* validateLanguage: None, or the class of the error it throws
ValidateLanguage(langCode) ==
  IF langCode = "" THEN "ValidationError"
  ELSE IF langCode \notin SupportedLanguages THEN "UnsupportedLanguageError"
  ELSE None

\* validateTranslationRequest: None, or the class of the error it throws
ValidateTranslationRequest(b) ==
  IF ValidateLanguage(b.sourceLang) # None THEN ValidateLanguage(b.sourceLang)
  ELSE IF ValidateLanguage(b.targetLang) # None THEN ValidateLanguage(b.targetLang)
  ELSE IF b.sourceLang = b.targetLang THEN "ValidationError"
  ELSE IF Len(b.keys) = 0 THEN "ValidationError"
  ELSE IF \E i \in 1..Len(b.keys) : b.keys[i] \notin DOMAIN b.texts THEN "ValidationError"
  ELSE IF /\ IsArray(b.methods)
          /\ \/ Len(b.methods) = 0
             \/ Range(b.methods) \notin SUBSET {"local", "ai"}
             \/ Duplicates(b.methods) THEN "ValidationError"
  ELSE IF /\ IsArray(b.fallbackOptions)
          /\ \/ Len(b.fallbackOptions) = 0
             \/ Range(b.fallbackOptions) \notin SUBSET {"yes", "no"}
             \/ Duplicates(b.fallbackOptions) THEN "ValidationError"
  ELSE None

(***************************************************************************)
(* TranslationService: the cache                                           *)
(***************************************************************************)
\* `${sourceLang}:${targetLang}:${key}`: language codes hold no ':', so the
\* string determines the triple
GenerateCacheKey(key, sourceLang, targetLang) == <<sourceLang, targetLang, key>>

\* filterCachedTranslations
RECURSIVE FilterCachedTranslations(_, _, _, _, _)
\* a filter that also asks for the keys it found in the cache
RECURSIVE FilterKeepsAll(_, _, _, _, _)
FilterKeepsAll(cache, keys, sourceLang, targetLang, acc) ==
  IF keys = <<>> THEN acc
  ELSE LET key      == Head(keys)
           cacheKey == GenerateCacheKey(key, sourceLang, targetLang) IN
       FilterKeepsAll(cache, Tail(keys), sourceLang, targetLang,
         IF OHas(cache, cacheKey)
           THEN [acc EXCEPT !.cachedTranslations = OSet(@, key, OGet(cache, cacheKey)),
                            !.keysToTranslate = Append(@, key)]
           ELSE [acc EXCEPT !.keysToTranslate = Append(@, key)])

FilterCachedTranslations(cache, keys, sourceLang, targetLang, acc) ==
  IF keys = <<>> THEN acc
  ELSE LET key      == Head(keys)
           cacheKey == GenerateCacheKey(key, sourceLang, targetLang) IN
       FilterCachedTranslations(cache, Tail(keys), sourceLang, targetLang,
         IF OHas(cache, cacheKey)
           THEN [acc EXCEPT !.cachedTranslations = OSet(@, key, OGet(cache, cacheKey))]
           ELSE [acc EXCEPT !.keysToTranslate = Append(@, key)])

NothingFiltered == [cachedTranslations |-> <<>>, keysToTranslate |-> <<>>]

\* a cache write that never evicts
CacheOneNoEvict(cache, cacheKey, value) == OSet(cache, cacheKey, value)

\* a cache write that evicts the newest entry
CacheOneEvictNewest(cache, cacheKey, value) ==
  OSet(IF OSize(cache) >= cacheSize THEN SubSeq(cache, 1, Len(cache) - 1) ELSE cache,
       cacheKey, value)

\* the body of the forEach of cacheTranslations, lines 260-270
CacheOne(cache, cacheKey, value) ==
  OSet(IF OSize(cache) >= cacheSize /\ cache # <<>> THEN Tail(cache) ELSE cache,
       cacheKey, value)

\* a cacheTranslations that stops after the first entry
CacheTranslationsFirstOnly(cache, translations, sourceLang, targetLang) ==
  IF translations = <<>> THEN cache
  ELSE CacheOne(cache, GenerateCacheKey(Head(translations).k, sourceLang, targetLang),
                Head(translations).v)

\* cacheTranslations
RECURSIVE CacheTranslations(_, _, _, _)
CacheTranslations(cache, translations, sourceLang, targetLang) ==
  IF translations = <<>> THEN cache
  ELSE CacheTranslations(
         CacheOne(cache, GenerateCacheKey(Head(translations).k, sourceLang, targetLang),
                  Head(translations).v),
         Tail(translations), sourceLang, targetLang)

\* history: the entries set into the cache since it was last empty, kept as
\* long as their cache keys are distinct and there are at most cacheSize + 1
LogOver == <<Entry(<<"", "", "">>, "more")>>

RECURSIVE LogSets(_, _, _, _)
LogSets(log, translations, sourceLang, targetLang) ==
  IF translations = <<>> THEN log
  ELSE LET cacheKey == GenerateCacheKey(Head(translations).k, sourceLang, targetLang) IN
       LogSets(IF log = LogOver \/ OHas(log, cacheKey) \/ Len(log) > cacheSize
                 THEN LogOver
                 ELSE Append(log, Entry(cacheKey, Head(translations).v)),
               Tail(translations), sourceLang, targetLang)

GetCacheStats(cache) == [size |-> OSize(cache), maxSize |-> cacheSize]

(***************************************************************************)
(* The providers, as TranslationService sees them.  A provider call gives  *)
(* the set of results it may produce, over what the network may answer.    *)
(* A result also carries history: calls (the provider calls made) and      *)
(* produced (the keys some method returned a non-empty translation for).   *)
(***************************************************************************)
Call(service, request, unrequested) ==
  [service |-> service, keys |-> request.keys, unrequested |-> unrequested]

\* metadata.fallbackUsed: a boolean, or absent
Flag(b) == {b}
NoFlag  == {}

\* history: what each of the calls gave
Gave(calls, threw, message, translations, errors) ==
  [i \in DOMAIN calls |->
     calls[i] @@ [threw |-> threw, message |-> message, translations |-> translations,
                  errors |-> {e.key : e \in Range(errors)}]]

Returned(translations, errors, provider, successfulKeys, failedKeys, fallbackUsed, calls) ==
  [threw |-> FALSE, message |-> None, cause |-> None,
   translations |-> translations, errors |-> errors,
   provider |-> provider, successfulKeys |-> successfulKeys, failedKeys |-> failedKeys,
   fallbackUsed |-> fallbackUsed,
   calls |-> Gave(calls, FALSE, None, translations, errors),
   produced |-> {k \in OKeySet(translations) : Truthy(OGet(translations, k))}]

Thrown(message, calls, produced) ==
  [threw |-> TRUE, message |-> message, cause |-> None,
   translations |-> <<>>, errors |-> <<>>,
   provider |-> None, successfulKeys |-> 0, failedKeys |-> 0,
   fallbackUsed |-> NoFlag,
   calls |-> Gave(calls, TRUE, message, <<>>, <<>>),
   produced |-> produced]

\* a local method that invents a translation
LocalLoopInvents(request, keys, translations) ==
  [i \in 1..Cardinality(Range(keys)) |->
     Entry((CHOOSE q \in [1..Cardinality(Range(keys)) -> Range(keys)] :
              Range(q) = Range(keys))[i], "Tr")]

RECURSIVE LocalLoop(_, _, _)
LocalLoop(request, keys, translations) ==
  IF keys = <<>> THEN translations
  ELSE LocalLoop(request, Tail(keys),
                 OSet(translations, Head(keys), request.texts[Head(keys)]))

\* LocalTranslationService.translate: localTranslateText returns the text
LocalTranslate(request) ==
  LET translations == LocalLoop(request, request.keys, <<>>) IN
  Returned(translations, <<>>, "local", OSize(translations), 0, NoFlag,
           <<Call("local", request, FALSE)>>)

\* what translateText gives for one text: a trimmed completion, or an error
TranslateTextResults ==
  {[ok |-> FALSE, text |-> ""], [ok |-> TRUE, text |-> "Tr"]}

\* the catch of translateWithOpenRouter, lines 152-164
OpenRouterFailed(acc, key, text) ==
  [translations |-> OSet(acc.translations, key, text),
   errors       |-> Append(acc.errors, [key |-> key, error |-> "translateText"])]

RECURSIVE OpenRouterLoop(_, _, _, _)
OpenRouterLoop(request, answers, i, acc) ==
  IF i > Len(request.keys) THEN acc
  ELSE LET key == request.keys[i] IN
       OpenRouterLoop(request, answers, i + 1,
         IF answers[i].ok
           THEN [acc EXCEPT !.translations = OSet(@, key, answers[i].text)]
           ELSE OpenRouterFailed(acc, key, request.texts[key]))

\* AiTranslationService.translateWithOpenRouter, answers[i] being what
\* translateText gives for request.keys[i]
TranslateWithOpenRouter(request, answers) ==
  LET r == OpenRouterLoop(request, answers, 1, [translations |-> <<>>, errors |-> <<>>]) IN
  Returned(r.translations, r.errors, "openrouter",
           OSize(r.translations) - Len(r.errors), Len(r.errors),
           Flag(Len(r.errors) > 0),
           <<Call("openrouter", request, FALSE)>>)

\* the JSON object of an Ollama answer: a map from keys, requested or not
Unrequested == "zz"
OllamaValues == {"", " Tr"}
OllamaReplies(request) ==
  UNION {[d -> OllamaValues] : d \in SUBSET (Range(request.keys) \cup {Unrequested})}

\* postProcessTranslation, on OllamaValues: text.trim()
PostProcessTranslation(text, targetLang) == IF text = " Tr" THEN "Tr" ELSE text

\* a parser that takes every key of the answer, requested or not
ParseAllOfReply(reply, request) ==
  [successfulTranslations |->
     LET d == DOMAIN reply
         RECURSIVE All(_)
         All(ks) == IF ks = {} THEN <<>>
                    ELSE LET k == CHOOSE k \in ks : TRUE IN
                         <<Entry(k, reply[k])>> \o All(ks \ {k})
     IN All(d),
   failedTranslations |-> <<>>]

\* a loop that stops at the first key without a translation
RECURSIVE ParseLoopAborting(_, _, _, _)
ParseLoopAborting(reply, request, keys, acc) ==
  IF keys = <<>> THEN acc
  ELSE LET key == Head(keys) IN
       IF key \in DOMAIN reply /\ Truthy(reply[key])
         THEN ParseLoopAborting(reply, request, Tail(keys),
                [acc EXCEPT !.successfulTranslations =
                   OSet(@, key, PostProcessTranslation(reply[key], request.targetLang))])
         ELSE [acc EXCEPT !.failedTranslations =
                 Append(@, [key |-> key, error |-> "Missing translation for key"])]

RECURSIVE ParseLoop(_, _, _, _)
ParseLoop(reply, request, keys, acc) ==
  IF keys = <<>> THEN acc
  ELSE LET key == Head(keys) IN
       ParseLoop(reply, request, Tail(keys),
         IF key \in DOMAIN reply /\ Truthy(reply[key])
           THEN [acc EXCEPT !.successfulTranslations =
                   OSet(@, key, PostProcessTranslation(reply[key], request.targetLang))]
           ELSE [acc EXCEPT !.failedTranslations =
                   Append(@, [key |-> key, error |-> "Missing translation for key"])])

\* OllamaService.parseTranslationResponse, lines 285-292, on a parsed answer
ParseTranslationResponse(reply, request) ==
  ParseLoop(reply, request, request.keys,
            [successfulTranslations |-> <<>>, failedTranslations |-> <<>>])

\* OllamaService.translate from line 166 on: the answer is parsed
OllamaAnswered(request, reply) ==
  LET r     == ParseTranslationResponse(reply, request)
      calls == <<Call("ollama", request, Unrequested \in DOMAIN reply)>> IN
  IF OSize(r.successfulTranslations) = 0
    THEN Thrown("No valid translations found in response", calls, {})
    ELSE Returned(r.successfulTranslations, r.failedTranslations, "ollama",
                  None, Len(r.failedTranslations), Flag(FALSE), calls)

\* OllamaService.translate: the call fails, or its answer is parsed
OllamaTranslate(request) ==
  {Thrown("Ollama translation failed", <<Call("ollama", request, FALSE)>>, {})}
    \cup {OllamaAnswered(request, reply) : reply \in OllamaReplies(request)}

\* config.translation.aiProviders[0]
DefaultAiProvider == "openrouter"

\* AiTranslationService.translate
AiTranslate(request) ==
  LET aiProvider == IF request.aiProvider # None THEN request.aiProvider
                    ELSE DefaultAiProvider IN
  IF aiProvider = "ollama"
    THEN OllamaTranslate(request)
    ELSE {TranslateWithOpenRouter(request, answers) :
            answers \in [1..Len(request.keys) -> TranslateTextResults]}

(***************************************************************************)
(* TranslationService.translate                                            *)
(***************************************************************************)
\* determineTranslationMethods
DetermineTranslationMethods(request) ==
  IF IsArray(request.methods) /\ Len(request.methods) > 0
    THEN request.methods
    ELSE <<"local", "ai">>

IsIncluded(x, arr) == IsArray(arr) /\ x \in Range(arr)

\* request.keys.filter(key => !result.translations[key])
MissingKeys(request, translations) ==
  LET Missing(key) == ~(OHas(translations, key) /\ Truthy(OGet(translations, key))) IN
  SelectSeq(request.keys, Missing)

SubRequest(request, keys) ==
  [request EXCEPT !.keys = keys,
                  !.texts = [k \in Range(keys) |-> request.texts[k]]]

\* lines 211-217: the fallback's result is merged into the local one
MergeFallback(local, ai) ==
  [local EXCEPT !.translations = OMerge(local.translations, ai.translations),
                !.errors       = local.errors \o ai.errors,
                !.fallbackUsed = Flag(TRUE),
                !.calls        = local.calls \o ai.calls,
                !.produced     = local.produced \cup ai.produced]

\* history: the calls made within the i-th method of the list
Within(i, calls) == [j \in DOMAIN calls |-> calls[j] @@ [method |-> i]]

\* a catch that does not say what the last method threw
LastErrorUnknown(r) == "Unknown error"

\* line 239: the message of the error caught, in the message of the error thrown
LastError(r) == r.message

\* a loop that never stops at a result
ProductiveNever(r) == FALSE

\* lines 221 and 228: does the result hold a translation
Productive(r) == OSize(r.translations) > 0

\* the loop of translateWithMethods from its i-th method on, calls and produced
\* being the history of the methods before
RECURSIVE MethodsFrom(_, _, _, _, _)
MethodsFrom(request, methods, i, calls, produced) ==
  IF i > Len(methods)
    THEN {Thrown("No translations were produced by any method", calls, produced)}
  ELSE
    LET method == methods[i]
        \* the catch of lines 232-242
        Caught(r) ==
          IF method = methods[Len(methods)]
            THEN {[Thrown("All translation methods failed",
                          calls \o Within(i, r.calls), produced \cup r.produced)
                     EXCEPT !.cause = LastError(r)]}
            ELSE MethodsFrom(request, methods, i + 1,
                             calls \o Within(i, r.calls), produced \cup r.produced)
        \* lines 221-223 and 228-230
        Done(r) ==
          IF Productive(r)
            THEN {[r EXCEPT !.calls = calls \o Within(i, r.calls),
                            !.produced = produced \cup r.produced]}
            ELSE MethodsFrom(request, methods, i + 1,
                             calls \o Within(i, r.calls), produced \cup r.produced)
    IN
    IF method = "local" THEN
      LET local   == LocalTranslate(request)
          missing == MissingKeys(request, local.translations) IN
      IF /\ OSize(local.translations) < Len(request.keys)
         /\ IsIncluded("yes", request.fallbackOptions)
         /\ Len(missing) > 0
        THEN UNION {IF ai.threw
                      THEN Caught([ai EXCEPT !.calls = local.calls \o ai.calls,
                                             !.produced = local.produced])
                      ELSE Done(MergeFallback(local, ai))
                    : ai \in AiTranslate([SubRequest(request, missing)
                                            EXCEPT !.methods = <<"ai">>])}
        ELSE Done(local)
    ELSE IF method = "ai" THEN
      UNION {IF ai.threw THEN Caught(ai) ELSE Done(ai) : ai \in AiTranslate(request)}
    ELSE MethodsFrom(request, methods, i + 1, calls, produced)

\* translateWithMethods
TranslateWithMethods(request, methods) == MethodsFrom(request, methods, 1, <<>>, {})

Options(b) ==
  [methods |-> b.methods, fallbackOptions |-> b.fallbackOptions,
   aiProvider |-> b.aiProvider]

Head4(b) ==
  [sourceLang |-> b.sourceLang, targetLang |-> b.targetLang, keys |-> b.keys,
   texts |-> b.texts]

IdleReq ==
  [pc |-> "idle", request |-> <<>>, cachedTranslations |-> <<>>,
   keysToTranslate |-> <<>>, repeatOf |-> FALSE, cleanOf |-> FALSE,
   cleared |-> FALSE, n |-> 0]

\* what translate gave its caller: its TranslationResponse (errors by the keys
\* they name), or the error it threw.  The fields from batch on are history:
\* the batch, the providers called, whether an answer held a key not asked
\* for, the keys some method returned a non-empty translation for, whether
\* caching the result evicted an entry, whether the call repeats the one
\* before (and that one was clean), whether the cache was cleared since the
\* call began
Outcome4(status, kind, batch, translations, r, hits, misses, evicted, repeat, clean, cleared) ==
  [status |-> status, kind |-> kind,
   translations |-> translations, errors |-> {e.key : e \in Range(r.errors)},
   provider |-> r.provider, cacheHits |-> hits, cacheMisses |-> misses,
   batch |-> Head4(batch),
   called |-> {c.service : c \in Range(r.calls)},
   unrequested |-> \E c \in Range(r.calls) : c.unrequested,
   produced |-> r.produced,
   evicted |-> evicted, repeat |-> repeat, cleanRepeat |-> clean,
   clearedSince |-> cleared]

\* history of a traced session: the number of the call, the fields of the
\* batch read after the first await, the cache hits, and the provider calls
\* with what each gave
NoTrace == [n |-> 0]

Trace(traced, n, o, cached, r) ==
  IF traced THEN [n |-> n, options |-> o, cached |-> cached, calls |-> r.calls,
                  message |-> r.message, cause |-> r.cause,
                  fallbackUsed |-> r.fallbackUsed]
            ELSE NoTrace

Traced(outcome, trace) == [trace |-> trace] @@ outcome

CallsSoFar == IF last = NoLast THEN 0 ELSE last.trace.n

\* is b the batch of the successful call before, the cache not cleared since
Repeats(b) ==
  /\ last.status = "ok"
  /\ ~last.clearedSince
  /\ last.batch = Head4(b)

\* did the successful call before return a translation for every key of its
\* batch and evict nothing
Clean == Range(last.batch.keys) \subseteq OKeySet(last.translations) /\ ~last.evicted

OrchInit ==
  /\ apiKeys = <<>>
  /\ currentKeyIndex = 0
  /\ poolOut = None
  /\ poolLog = <<>>
  /\ apiLimits = None
  /\ tt = <<>>
  /\ translationCache = <<>>
  /\ req = [p \in {1} |-> IdleReq]
  /\ last = NoLast
  /\ stats = <<>>
  /\ setLog = <<>>
  /\ ProbesIdle

\* what a step of TranslationService leaves alone
OrchRest ==
  UNCHANGED <<apiKeys, governor, parsing, currentKeyIndex, poolOut, poolLog, apiLimits, tt, health, ollama>>

\* the batches translate is called with: the options of a valid one are drawn
\* when translate first reads them, in TranslateEnd
Inputs(max) == {h @@ NoOptions : h \in ValidHeads(max)} \cup InvalidBatches

\* translate is called: lines 46-86, up to the first provider call
Begin(p, inputs, traced) ==
  /\ req[p].pc = "idle"
  /\ \E b \in inputs :
       LET invalid == ValidateTranslationRequest(b)
           f == FilterCachedTranslations(translationCache, b.keys, b.sourceLang,
                                         b.targetLang, NothingFiltered)
           n == IF traced THEN CallsSoFar + 1 ELSE 0 IN
       IF invalid # None
         THEN /\ LET r == Thrown(invalid, <<>>, {}) IN
                 last' = Traced(Outcome4("error", invalid, b, <<>>, r,
                                         0, 0, FALSE, FALSE, FALSE, FALSE),
                                Trace(traced, n, Options(b), <<>>, r))
              /\ UNCHANGED req
       ELSE IF Len(f.keysToTranslate) = 0
         THEN /\ \E o \in IF traced THEN ValidOptions ELSE {NoOptions} :
                   LET r == Returned(<<>>, <<>>, "cache",
                                     OSize(f.cachedTranslations), 0, NoFlag, <<>>) IN
                   last' = Traced(Outcome4("ok", None, b, f.cachedTranslations, r,
                                           OSize(f.cachedTranslations), 0, FALSE,
                                           Repeats(b), Repeats(b) /\ Clean, FALSE),
                                  Trace(traced, n, o, f.cachedTranslations, r))
              /\ UNCHANGED req
         ELSE /\ last' = NoLast
              /\ req' = [req EXCEPT ![p] =
                     [pc |-> "pending", request |-> Head4(b),
                      cachedTranslations |-> f.cachedTranslations,
                      keysToTranslate |-> f.keysToTranslate,
                      repeatOf |-> Repeats(b),
                      cleanOf |-> Repeats(b) /\ Clean,
                      cleared |-> FALSE, n |-> n]]
  /\ stats' = <<>>
  /\ UNCHANGED <<translationCache, setLog>>
  /\ OrchRest

TranslateBegin(p) == Begin(p, Inputs(MaxKeys), FALSE)

\* the first call of translate on a new TranslationService, traced
FirstTranslateBegin(p) ==
  /\ last = NoLast
  /\ translationCache = <<>>
  /\ Begin(p, Inputs(MaxFirst), TRUE)

\* a call of a traced session of MaxCalls calls
WarmTranslateBegin(p) ==
  /\ CallsSoFar < MaxCalls
  /\ Begin(p, Inputs(MaxWarm), TRUE)

\* the providers have answered: lines 89-136
End(p, options, traced) ==
  /\ req[p].pc = "pending"
  /\ \E o \in options :
       LET request  == req[p].request @@ o
           filtered == SubRequest(request, req[p].keysToTranslate)
           hits     == OSize(req[p].cachedTranslations)
           misses   == Len(req[p].keysToTranslate)
           repeat   == req[p].repeatOf
           clean    == req[p].cleanOf IN
       /\ ValidateTranslationRequest(request) = None
       /\ \E result \in TranslateWithMethods(filtered, DetermineTranslationMethods(request)) :
            IF result.threw
              THEN /\ last' = Traced(Outcome4("error", "TranslationError", request, <<>>,
                                              result, hits, misses, FALSE, repeat, clean,
                                              req[p].cleared),
                                     Trace(traced, req[p].n, o, req[p].cachedTranslations,
                                           result))
                   /\ UNCHANGED <<translationCache, setLog>>
              ELSE /\ last' = Traced(Outcome4("ok", None, request,
                                              OMerge(req[p].cachedTranslations,
                                                     result.translations),
                                              result, hits, misses,
                                              OSize(translationCache)
                                                + OSize(result.translations) > cacheSize,
                                              repeat, clean, req[p].cleared),
                                     Trace(traced, req[p].n, o, req[p].cachedTranslations,
                                           result))
                   /\ translationCache' =
                        CacheTranslations(translationCache, result.translations,
                                          request.sourceLang, request.targetLang)
                   /\ setLog' = LogSets(setLog, result.translations,
                                        request.sourceLang, request.targetLang)
  /\ req' = [req EXCEPT ![p] = IdleReq]
  /\ stats' = <<>>
  /\ OrchRest

\* a translate that empties the cache when all its methods have failed
TranslateEndDropsCache(p) ==
  /\ req[p].pc = "pending"
  /\ \E o \in ValidOptions :
       LET request  == req[p].request @@ o
           filtered == SubRequest(request, req[p].keysToTranslate)
           hits     == OSize(req[p].cachedTranslations)
           misses   == Len(req[p].keysToTranslate) IN
       /\ ValidateTranslationRequest(request) = None
       /\ \E result \in TranslateWithMethods(filtered, DetermineTranslationMethods(request)) :
            IF result.threw
              THEN /\ last' = Traced(Outcome4("error", "TranslationError", request, <<>>,
                                              result, hits, misses, FALSE, req[p].repeatOf,
                                              req[p].cleanOf, req[p].cleared),
                                     NoTrace)
                   /\ translationCache' = <<>>
                   /\ setLog' = <<>>
              ELSE /\ last' = Traced(Outcome4("ok", None, request,
                                              OMerge(req[p].cachedTranslations,
                                                     result.translations),
                                              result, hits, misses,
                                              OSize(translationCache)
                                                + OSize(result.translations) > cacheSize,
                                              req[p].repeatOf, req[p].cleanOf,
                                              req[p].cleared),
                                     NoTrace)
                   /\ translationCache' =
                        CacheTranslations(translationCache, result.translations,
                                          request.sourceLang, request.targetLang)
                   /\ setLog' = LogSets(setLog, result.translations,
                                        request.sourceLang, request.targetLang)
  /\ req' = [req EXCEPT ![p] = IdleReq]
  /\ stats' = <<>>
  /\ OrchRest

TranslateEnd(p) == End(p, ValidOptions, FALSE)

TracedTranslateEnd(p) == End(p, ValidOptions, TRUE)

\* clearCache
ClearCache ==
  /\ translationCache' = <<>>
  /\ setLog' = <<>>
  /\ last' = IF last = NoLast THEN NoLast ELSE [last EXCEPT !.clearedSince = TRUE]
  /\ req' = [p \in DOMAIN req |-> [req[p] EXCEPT !.repeatOf = FALSE, !.cleanOf = FALSE,
                                                !.cleared = req[p].pc = "pending"]]
  /\ stats' = <<>>
  /\ OrchRest

\* getCacheStats
GetCacheStatsCall ==
  /\ stats' = <<GetCacheStats(translationCache)>>
  /\ UNCHANGED <<translationCache, req, last, setLog>>
  /\ OrchRest

\* two callers of translate on one TranslationService: the first asks for three
\* keys at once, the second for one key, in either direction
ConcText == [k \in {"a", "b", "c"} |-> "Hello"]

ConcBatch(sourceLang, targetLang, keys) ==
  [sourceLang |-> sourceLang, targetLang |-> targetLang, keys |-> keys,
   texts |-> ConcText] @@ NoOptions

ConcInputs(p) ==
  IF p = 1 THEN {ConcBatch("en", "ru", <<"a", "b", "c">>)}
  ELSE {ConcBatch("en", "ru", <<"a">>), ConcBatch("en", "ru", <<"b">>),
        ConcBatch("ru", "en", <<"a">>)}

Callers == {1, 2}

ConcInit ==
  /\ apiKeys = <<>>
  /\ currentKeyIndex = 0
  /\ poolOut = None
  /\ poolLog = <<>>
  /\ apiLimits = None
  /\ tt = <<>>
  /\ translationCache = <<>>
  /\ req = [p \in Callers |-> IdleReq]
  /\ last = NoLast
  /\ stats = <<>>
  /\ setLog = <<>>
  /\ ProbesIdle

ConcTranslateBegin(p) == Begin(p, ConcInputs(p), FALSE)

\* the callers ask for the hosted provider alone
ConcOptions == {[methods |-> <<"ai">>, fallbackOptions |-> NoArray, aiProvider |-> None]}

ConcTranslateEnd(p) == End(p, ConcOptions, FALSE)

ConcNext ==
  \/ \E p \in Callers : ConcTranslateBegin(p)
  \/ \E p \in Callers : ConcTranslateEnd(p)

ConcSpec == ConcInit /\ [][ConcNext]_vars

Next ==
  \/ TranslateBegin(1)
  \/ TranslateEnd(1)
  \/ ClearCache
  \/ GetCacheStatsCall

Spec == OrchInit /\ [][Next]_vars

\* one call of translate on a new TranslationService
FirstNext ==
  \/ FirstTranslateBegin(1)
  \/ TracedTranslateEnd(1)

FirstSpec == OrchInit /\ [][FirstNext]_vars

\* MaxCalls calls of translate on a new TranslationService, one after the other
WarmNext ==
  \/ WarmTranslateBegin(1)
  \/ TracedTranslateEnd(1)

WarmSpec == OrchInit /\ [][WarmNext]_vars

(***************************************************************************)
(* The health checks: TranslationService.checkHealth,                      *)
(* AiTranslationService.checkHealth and OllamaService.checkHealth          *)
(***************************************************************************)
\* config.api.ollama.model, and the names GET /api/tags may list: a name is
\* the sequence of its parts
OllamaModel == <<"llama3">>
ModelNames  == {<<"llama3">>, <<"llama3", ":8b">>, <<"mistral">>}

\* name.includes(model)
Includes(name, model) ==
  \E i \in 0..(Len(name) - Len(model)) : SubSeq(name, i + 1, i + Len(model)) = model

\* what GET /api/tags may give: no answer, a non-2xx answer, or a list of models
TagsReplies ==
  {[reached |-> FALSE, ok |-> FALSE, names |-> {}],
   [reached |-> TRUE, ok |-> FALSE, names |-> {}]}
    \cup {[reached |-> TRUE, ok |-> TRUE, names |-> n] : n \in SUBSET ModelNames}

\* lines 66-69: is the configured model among the names listed
ModelAvailable(names) == \E name \in names : name = OllamaModel \/ Includes(name, OllamaModel)

\* the try block of OllamaService.checkHealth, lines 52-80: the class of the
\* error thrown in it, or None
HealthTry(reply) ==
  IF ~reply.reached THEN "FetchError"
  ELSE IF ~reply.ok THEN "ServiceUnavailableError"
  ELSE IF ~ModelAvailable(reply.names) THEN "ModelNotFoundError"
  ELSE None

\* the catch of lines 81-84: whatever was thrown, a ServiceUnavailableError
HealthCatch(thrown) == "ServiceUnavailableError"

\* OllamaService.checkHealth: what it throws (the error of the try block as
\* cause), or that it returns true
OllamaCheckHealth(reply) ==
  LET thrown == HealthTry(reply) IN
  IF thrown = None
    THEN [threw |-> FALSE, kind |-> None, cause |-> None]
    ELSE [threw |-> TRUE, kind |-> HealthCatch(thrown), cause |-> thrown]

\* history: a probe made by checkHealth, with what it was answered
Probe(provider, reply, healthy, kind) ==
  [provider |-> provider, reply |-> reply, healthy |-> healthy, kind |-> kind]

\* an AiTranslationService.checkHealth that stops at the first failed probe
AiHealthOutFirstFailure(h) ==
  IF \E i \in DOMAIN h.probes : ~h.probes[i].healthy
    THEN [threw |-> TRUE, kind |-> "ServiceUnavailableError"]
    ELSE [threw |-> FALSE, kind |-> None]

\* AiTranslationService.checkHealth, lines 68-73: throws, or returns true
AiHealthOut(h) ==
  IF ~h.openrouter /\ ~h.ollama
    THEN [threw |-> TRUE, kind |-> "ServiceUnavailableError"]
    ELSE [threw |-> FALSE, kind |-> None]

\* what the caller of checkHealth gets: of AiTranslationService's, true or the
\* error; of TranslationService's (lines 293-307), the map of results
HealthOut(h) ==
  LET ai == AiHealthOut(h) IN
  IF h.caller = "ai"
    THEN ai @@ [results |-> <<>>]
    ELSE [threw |-> FALSE, kind |-> None,
          results |-> <<[local |-> TRUE, ai |-> ~ai.threw, cache |-> TRUE]>>]

\* AiTranslationService.checkHealth from line 56 on
AfterOpenRouter(h) ==
  IF h.baseURL THEN [h EXCEPT !.pc = "ollama"]
  ELSE [h EXCEPT !.pc = "idle", !.out = HealthOut(h)]

\* checkHealth is called: up to the first probe, or to its end if no provider
\* is configured
HealthStart(caller) ==
  /\ health.pc = "idle"
  /\ LET h == [IdleHealth(health.baseURL) EXCEPT !.caller = caller] IN
     health' = IF HasKeys(apiKeys) THEN [h EXCEPT !.pc = "openrouter"]
               ELSE AfterOpenRouter(h)
  /\ UNCHANGED <<apiKeys, governor, parsing, currentKeyIndex, poolOut, poolLog, apiLimits, tt, ollama,
                 translationCache, req, last, stats, setLog>>

\* TranslationService.checkHealth is called
CheckHealth == HealthStart("translation")

\* AiTranslationService.checkHealth is called
AiCheckHealth == HealthStart("ai")

\* checkApiLimits has answered, lines 47-54
OpenRouterProbed ==
  /\ health.pc = "openrouter"
  /\ \E reply \in ProbeReplies :
       /\ apiLimits' = IF reply.ok THEN CheckApiLimits(reply) ELSE apiLimits
       /\ health' = AfterOpenRouter(
            [health EXCEPT !.openrouter = reply.ok,
                           !.probes = Append(@, Probe("openrouter", reply, reply.ok,
                                       IF reply.ok THEN None ELSE "ApiError"))])
  /\ UNCHANGED <<apiKeys, governor, parsing, currentKeyIndex, poolOut, poolLog, tt, ollama,
                 translationCache, req, last, stats, setLog>>

\* OllamaService.checkHealth has answered, lines 59-66
OllamaProbed ==
  /\ health.pc = "ollama"
  /\ \E reply \in TagsReplies :
       LET r == OllamaCheckHealth(reply)
           h == [health EXCEPT !.ollama = ~r.threw,
                               !.probes = Append(@, Probe("ollama", reply, ~r.threw, r.kind))] IN
       health' = [h EXCEPT !.pc = "idle", !.out = HealthOut(h)]
  /\ UNCHANGED <<apiKeys, governor, parsing, currentKeyIndex, poolOut, poolLog, apiLimits, tt, ollama,
                 translationCache, req, last, stats, setLog>>

HealthInit ==
  /\ apiKeys \in {SubSeq(ConfiguredKeys, 1, n) : n \in 0..MaxPool}
  /\ currentKeyIndex = 0
  /\ poolOut = None
  /\ poolLog = <<>>
  /\ apiLimits = NoLimits
  /\ tt = <<>>
  /\ translationCache = <<>>
  /\ req = <<>>
  /\ last = NoLast
  /\ stats = <<>>
  /\ setLog = <<>>
  /\ health \in {IdleHealth(b) : b \in BOOLEAN}
  /\ ollama = IdleOllama(maxOllamaRetries)
  /\ governor = IdleGovernor
  /\ parsing = NoParse

HealthNext ==
  \/ CheckHealth
  \/ AiCheckHealth
  \/ OpenRouterProbed
  \/ OllamaProbed

HealthSpec == HealthInit /\ [][HealthNext]_vars

(***************************************************************************)
(* OllamaService.translate and its executeWithRetry                        *)
(***************************************************************************)
\* the batch OllamaService.translate is called with
OllamaRequest ==
  [sourceLang |-> "en", targetLang |-> "ru", keys |-> <<"a", "b">>,
   texts |-> SourceText("en")]

\* what the function given to executeWithRetry throws, lines 113-162: by the
\* status of the answer (404; 503 or 504; another non-2xx), on the abort of the
\* deadline, or what fetch threw
FetchErrors ==
  {"ModelNotFoundError", "ServiceUnavailableError", "TranslationError",
   "TranslationTimeoutError", "FetchError"}

\* a retry loop that retries whatever the error
RetryableAll(error) == TRUE

\* lines 450-452: the errors executeWithRetry retries
Retryable(error) == error \notin {"ModelNotFoundError", "TranslationTimeoutError"}

\* a retry loop that waits the same time before every retry
DelayFlat(maxRetries, retries) == retryDelay

\* line 459: the delay before the retry made with retries retries left
DelayBefore(maxRetries, retries) == retryDelay * (maxRetries - retries + 1)

\* the catch of translate, lines 189-201: a TranslationError goes through, any
\* other error becomes a TranslationError with the message of that error
TranslateCatch(error) ==
  [threw |-> TRUE, kind |-> "TranslationError", wrapped |-> error # "TranslationError",
   thrown |-> error]

\* history: the answer parsed, with what parseTranslationResponse made of it
\* before line 295
Answer(request, reply) ==
  LET r == ParseTranslationResponse(reply, request) IN
  [reply |-> reply, accepted |-> r.successfulTranslations,
   failed |-> {e.key : e \in Range(r.failedTranslations)}]

\* translate is called: the first HTTP call is made
OllamaTranslateCall ==
  /\ ollama.pc = "idle"
  /\ ollama' = [IdleOllama(ollama.maxRetries) EXCEPT
                  !.pc = "fetch", !.retries = ollama.maxRetries, !.calls = 1]
  /\ UNCHANGED <<apiKeys, governor, parsing, currentKeyIndex, poolOut, poolLog, apiLimits, tt, health,
                 translationCache, req, last, stats, setLog>>

\* the HTTP call is answered in time with a 2xx: the answer is parsed
FetchAnswered ==
  /\ ollama.pc = "fetch"
  /\ \E reply \in OllamaReplies(OllamaRequest) :
       LET r == OllamaAnswered(OllamaRequest, reply) IN
       ollama' = [ollama EXCEPT
                    !.pc = "idle",
                    !.answer = <<Answer(OllamaRequest, reply)>>,
                    !.out = IF r.threw THEN [TranslateCatch("TranslationError")
                                               EXCEPT !.thrown = None]
                            ELSE [threw |-> FALSE, kind |-> None, wrapped |-> FALSE,
                                  thrown |-> None]]
  /\ UNCHANGED <<apiKeys, governor, parsing, currentKeyIndex, poolOut, poolLog, apiLimits, tt, health,
                 translationCache, req, last, stats, setLog>>

\* the HTTP call fails: the catch of executeWithRetry, lines 444-460
FetchFailed ==
  /\ ollama.pc = "fetch"
  /\ \E error \in FetchErrors :
       LET o == [ollama EXCEPT !.errors = Append(@, error)] IN
       ollama' = IF ollama.retries <= 0 \/ ~Retryable(error)
                   THEN [o EXCEPT !.pc = "idle", !.out = TranslateCatch(error)]
                   ELSE [o EXCEPT !.pc = "delay",
                                  !.delays = Append(@, DelayBefore(ollama.maxRetries,
                                                                   ollama.retries))]
  /\ UNCHANGED <<apiKeys, governor, parsing, currentKeyIndex, poolOut, poolLog, apiLimits, tt, health,
                 translationCache, req, last, stats, setLog>>

\* the delay is over: executeWithRetry(fn, retries - 1) makes the next HTTP call
DelayDone ==
  /\ ollama.pc = "delay"
  /\ ollama' = [ollama EXCEPT !.pc = "fetch", !.retries = @ - 1, !.calls = @ + 1]
  /\ UNCHANGED <<apiKeys, governor, parsing, currentKeyIndex, poolOut, poolLog, apiLimits, tt, health,
                 translationCache, req, last, stats, setLog>>

OllamaInit ==
  /\ apiKeys = <<>>
  /\ currentKeyIndex = 0
  /\ poolOut = None
  /\ poolLog = <<>>
  /\ apiLimits = None
  /\ tt = <<>>
  /\ translationCache = <<>>
  /\ req = <<>>
  /\ last = NoLast
  /\ stats = <<>>
  /\ setLog = <<>>
  /\ health = IdleHealth(TRUE)
  /\ ollama \in {IdleOllama(n) : n \in 0..maxOllamaRetries}
  /\ governor = IdleGovernor
  /\ parsing = NoParse

OllamaNext ==
  \/ OllamaTranslateCall
  \/ FetchAnswered
  \/ FetchFailed
  \/ DelayDone

OllamaSpec == OllamaInit /\ [][OllamaNext]_vars

(***************************************************************************)
(* OllamaService.parseTranslationResponse on the text of an answer.  A text *)
(* is the sequence of its pieces: each of { } " ' : , // space and newline  *)
(* is a piece of its own, and so is each run of other characters.           *)
(***************************************************************************)
Quote   == "\""
Newline == "\n"

\* the strings that occur between quotes and in prose, with their pieces
Known == {"", " Tr", "Tr", "No", "a", "b", "zz", "Sure", "ok"}

Pieces(str) ==
  IF str = "" THEN <<>> ELSE IF str = " Tr" THEN <<" ", "Tr">> ELSE <<str>>

\* the string that a run of pieces spells
Other == "?"
Joined(pieces) ==
  IF \E str \in Known : Pieces(str) = pieces
    THEN CHOOSE str \in Known : Pieces(str) = pieces
    ELSE Other

IsWs(p) == p \in {" ", Newline}

\* the first place at or after i that holds no white space
RECURSIVE SkipWs(_, _)
SkipWs(t, i) == IF i <= Len(t) /\ IsWs(t[i]) THEN SkipWs(t, i + 1) ELSE i

\* the first place at or after i that holds p, 0 when there is none
RECURSIVE IndexFrom(_, _, _)
IndexFrom(t, p, i) ==
  IF i > Len(t) THEN 0 ELSE IF t[i] = p THEN i ELSE IndexFrom(t, p, i + 1)

\* the last place at or before i that holds p, 0 when there is none
RECURSIVE LastIndexFrom(_, _, _)
LastIndexFrom(t, p, i) ==
  IF i < 1 THEN 0 ELSE IF t[i] = p THEN i ELSE LastIndexFrom(t, p, i - 1)

\* a match that takes the whole text
MatchWhole(t) == t

\* line 260, responseText.match(/\{[\s\S]*\}/): from the first { to the last },
\* <<>> when there is no match
MatchObject(t) ==
  LET i == IndexFrom(t, "{", 1)
      j == LastIndexFrom(t, "}", Len(t)) IN
  IF i = 0 \/ j < i THEN <<>> ELSE SubSeq(t, i, j)

NoString == [ok |-> FALSE, value |-> "", next |-> 0]

\* JSON.parse reading a string literal at place i
ReadString(t, i) ==
  IF i > Len(t) \/ t[i] # Quote THEN NoString
  ELSE LET j == IndexFrom(t, Quote, i + 1) IN
       IF j = 0 \/ Newline \in Range(SubSeq(t, i + 1, j - 1)) THEN NoString
       ELSE [ok |-> TRUE, value |-> Joined(SubSeq(t, i + 1, j - 1)), next |-> j + 1]

EmptyObject == [k \in {} |-> ""]
NoObject    == [ok |-> FALSE, object |-> EmptyObject]

\* object[key] = value
WithMember(object, key, value) ==
  [k \in DOMAIN object \cup {key} |-> IF k = key THEN value ELSE object[k]]

\* JSON.parse reading the members of an object from place i to the end
RECURSIVE ReadMembers(_, _, _)
ReadMembers(t, i, object) ==
  LET k == ReadString(t, i)
      c == SkipWs(t, k.next)
      v == ReadString(t, SkipWs(t, c + 1))
      e == SkipWs(t, v.next) IN
  IF ~k.ok \/ c > Len(t) THEN NoObject
  ELSE IF t[c] # ":" \/ ~v.ok \/ e > Len(t) THEN NoObject
  ELSE IF t[e] = "}"
    THEN IF SkipWs(t, e + 1) > Len(t)
           THEN [ok |-> TRUE, object |-> WithMember(object, k.value, v.value)]
           ELSE NoObject
  ELSE IF t[e] = ","
    THEN ReadMembers(t, SkipWs(t, e + 1), WithMember(object, k.value, v.value))
  ELSE NoObject

\* JSON.parse of a text that holds an object with string values, or none
JsonParse(t) ==
  IF t = <<>> THEN NoObject
  ELSE IF t[1] # "{" THEN NoObject
  ELSE LET i == SkipWs(t, 2) IN
       IF i <= Len(t) /\ t[i] = "}"
         THEN IF SkipWs(t, i + 1) > Len(t) THEN [ok |-> TRUE, object |-> EmptyObject]
              ELSE NoObject
         ELSE ReadMembers(t, i, EmptyObject)

\* line 322, replace(/\/\/.*$/gm, ''): a // and what follows it on its line
RECURSIVE StripLineComments(_, _)
StripLineComments(t, inComment) ==
  IF t = <<>> THEN <<>>
  ELSE IF Head(t) = Newline THEN <<Newline>> \o StripLineComments(Tail(t), FALSE)
  ELSE IF inComment \/ Head(t) = "//" THEN StripLineComments(Tail(t), TRUE)
  ELSE <<Head(t)>> \o StripLineComments(Tail(t), FALSE)

\* line 326, replace(/'([^']+)'/g, '"$1"')
RECURSIVE FixSingleQuotes(_)
FixSingleQuotes(t) ==
  IF t = <<>> THEN <<>>
  ELSE LET j == IndexFrom(t, "'", 2) IN
       IF Head(t) = "'" /\ j > 2
         THEN <<Quote>> \o SubSeq(t, 2, j - 1) \o <<Quote>>
                \o FixSingleQuotes(SubSeq(t, j + 1, Len(t)))
         ELSE <<Head(t)>> \o FixSingleQuotes(Tail(t))

\* line 334, replace(/,\s*}/g, '}')
RECURSIVE StripTrailingCommas(_)
StripTrailingCommas(t) ==
  IF t = <<>> THEN <<>>
  ELSE LET j == SkipWs(t, 2) IN
       IF Head(t) = "," /\ j <= Len(t) /\ t[j] = "}"
         THEN <<"}">> \o StripTrailingCommas(SubSeq(t, j + 1, Len(t)))
         ELSE <<Head(t)>> \o StripTrailingCommas(Tail(t))

\* cleanJsonResponse.  The texts modelled hold no block comment, no ] and no
\* object in an object, and line 329 only changes the white space between a
\* colon and the quote after it: lines 323, 329, 335 and 338 leave them as
\* JSON.parse reads them
CleanJsonResponse(t) == StripTrailingCommas(FixSingleQuotes(StripLineComments(t, FALSE)))

\* responseText.split('\n')
RECURSIVE Split(_, _)
Split(t, line) ==
  IF t = <<>> THEN <<line>>
  ELSE IF Head(t) = Newline THEN <<line>> \o Split(Tail(t), <<>>)
  ELSE Split(Tail(t), Append(line, Head(t)))

\* lines 356-365: the key and the value of a trimmed line that matches
\* /^"([^"]+)":\s*"([^"]*)"/
LineMatch(line) ==
  LET j == IndexFrom(line, Quote, 2)
      k == SkipWs(line, j + 2)
      m == IndexFrom(line, Quote, k + 1) IN
  IF line = <<>> THEN NoString
  ELSE IF line[1] # Quote \/ j < 3 \/ j + 1 > Len(line) THEN NoString
  ELSE IF line[j + 1] # ":" \/ k > Len(line) THEN NoString
  ELSE IF line[k] # Quote \/ m = 0 THEN NoString
  ELSE [ok |-> TRUE, value |-> Joined(SubSeq(line, k + 1, m - 1)),
        key |-> Joined(SubSeq(line, 2, j - 1))]

\* lines 355-370: keyTranslations
RECURSIVE KeyTranslations(_, _)
KeyTranslations(lines, object) ==
  IF lines = <<>> THEN object
  ELSE LET m == LineMatch(Trim(Head(lines))) IN
       KeyTranslations(Tail(lines),
                       IF m.ok THEN WithMember(object, m.key, m.value) ELSE object)

NoParseOut == [threw |-> FALSE, kind |-> None, message |-> None, accepted |-> <<>>, failed |-> {}]

ParseThrew(kind, message) == [NoParseOut EXCEPT !.threw = TRUE, !.kind = kind, !.message = message]

ParseReturned(r) ==
  [NoParseOut EXCEPT !.accepted = r.successfulTranslations,
                     !.failed = {e.key : e \in Range(r.failedTranslations)}]

\* fallbackParseResponse, lines 347-390
FallbackParseResponse(text, request) ==
  LET r == ParseTranslationResponse(KeyTranslations(Split(text, <<>>), EmptyObject), request) IN
  IF OSize(r.successfulTranslations) > 0 THEN ParseReturned(r)
  ELSE ParseThrew("TranslationError", "Fallback parsing also failed to extract translations")

\* error.message.includes('JSON'), on the messages of parseTranslationResponse
IncludesJson(message) ==
  message \in {"No JSON object found in Ollama response", "Failed to parse JSON response"}

\* the catch of parseTranslationResponse, lines 304-313.  Line 309 reads
\* responseText, a const of the try block (line 251) that is not in scope in
\* the catch: evaluating it throws a ReferenceError before
\* fallbackParseResponse is called
ParseCatch(message, text, request) ==
  IF IncludesJson(message)
    THEN ParseThrew("ReferenceError", "responseText is not defined")
    ELSE ParseThrew("TranslationError", message)

\* parseTranslationResponse, lines 249-314, on the text of the answer
ParseResponseText(text, request) ==
  LET jsonString == MatchObject(text)
      first      == JsonParse(jsonString)
      second     == JsonParse(CleanJsonResponse(jsonString))
      parsed     == IF first.ok THEN first ELSE second
      r          == ParseTranslationResponse(parsed.object, request) IN
  IF text = <<>> THEN ParseCatch("Empty response from Ollama", text, request)
  ELSE IF jsonString = <<>>
    THEN ParseCatch("No JSON object found in Ollama response", text, request)
  ELSE IF ~parsed.ok THEN ParseCatch("Failed to parse JSON response", text, request)
  ELSE IF OSize(r.successfulTranslations) = 0
    THEN ParseCatch("No valid translations found in response", text, request)
  ELSE ParseReturned(r)

\* the shapes of the answers drawn
Styles == {"json", "pretty", "single", "trailing", "comment", "lines", "bare", "noBraces"}

\* text around the object: none, a phrase, a line that looks like a member
Prose ==
  {<<>>, <<"Sure", ":", " ">>,
   <<Newline, Quote, "a", Quote, ":", " ", Quote, "No", Quote, Newline>>}

Str(q, str) == <<q>> \o Pieces(str) \o <<q>>

\* the members of reply, in the order a, b, zz
RECURSIVE Members(_, _, _, _)
Members(reply, keys, style, first) ==
  IF keys = <<>> THEN <<>>
  ELSE IF Head(keys) \notin DOMAIN reply THEN Members(reply, Tail(keys), style, first)
  ELSE LET k == Head(keys)
           q == IF style = "single" THEN "'" ELSE Quote
           sep == IF first THEN <<>>
                  ELSE IF style \in {"lines", "noBraces"} THEN <<Newline>>
                  ELSE IF style = "pretty" THEN <<",", Newline, " ">>
                  ELSE <<",">>
           key == IF style = "bare" THEN Pieces(k) ELSE Str(q, k)
           gap == IF style \in {"pretty", "lines", "noBraces"} THEN <<" ">> ELSE <<>> IN
       sep \o key \o <<":">> \o gap \o Str(q, reply[k])
         \o Members(reply, Tail(keys), style, FALSE)

\* the text of an object in a style
Render(reply, style) ==
  LET members == Members(reply, <<"a", "b", "zz">>, style, TRUE) IN
  IF style = "noBraces" THEN members
  ELSE IF style = "trailing" THEN <<"{">> \o members \o <<",", " ", "}">>
  ELSE IF style = "comment" THEN <<"{">> \o members \o <<" ", "//", "ok", Newline, "}">>
  ELSE IF style \in {"pretty", "lines"} THEN <<"{", Newline>> \o members \o <<Newline, "}">>
  ELSE <<"{">> \o members \o <<"}">>

ParseInputs ==
  {[reply |-> reply, style |-> style, before |-> before, after |-> after,
    text |-> before \o Render(reply, style) \o after, done |-> FALSE, out |-> NoParseOut] :
     reply \in OllamaReplies(OllamaRequest), style \in Styles,
     before \in Prose, after \in Prose}

ParseInit ==
  /\ apiKeys = <<>>
  /\ currentKeyIndex = 0
  /\ poolOut = None
  /\ poolLog = <<>>
  /\ apiLimits = None
  /\ tt = <<>>
  /\ translationCache = <<>>
  /\ req = <<>>
  /\ last = NoLast
  /\ stats = <<>>
  /\ setLog = <<>>
  /\ health = IdleHealth(TRUE)
  /\ ollama = IdleOllama(maxOllamaRetries)
  /\ governor = IdleGovernor
  /\ parsing \in {<<input>> : input \in ParseInputs}

\* the answer is parsed
ParseResponse ==
  /\ ~parsing[1].done
  /\ parsing' = <<[parsing[1] EXCEPT !.done = TRUE,
                                     !.out = ParseResponseText(parsing[1].text, OllamaRequest)]>>
  /\ UNCHANGED <<apiKeys, governor, currentKeyIndex, poolOut, poolLog, apiLimits, tt,
                 translationCache, req, last, stats, setLog, health, ollama>>

ParseNext == ParseResponse

ParseSpec == ParseInit /\ [][ParseNext]_vars

(***************************************************************************)
(* OllamaService.applyRateLimit, with concurrent callers of translate       *)
(***************************************************************************)

GovernorRest ==
  UNCHANGED <<apiKeys, parsing, currentKeyIndex, poolOut, poolLog, apiLimits, tt,
              translationCache, req, last, stats, setLog, health, ollama>>

\* line 434: this.lastRequestTime = Date.now(), and the caller goes on to its
\* provider call
Stamp(g, p) ==
  [g EXCEPT !.lastRequestTime = g.now,
            !.stamps = Append(@, g.now),
            !.ar[p] = [pc |-> "fetch", wake |-> 0]]

\* lines 425-432: the time to sleep, 0 when the interval has passed
DelayTime(g) ==
  IF g.now - g.lastRequestTime < minRequestInterval
    THEN minRequestInterval - (g.now - g.lastRequestTime)
    ELSE 0

\* translate calls applyRateLimit (line 103): it runs to its await, or to its
\* end when there is nothing to wait for
ApplyRateLimit(p) ==
  /\ governor.ar[p].pc = "idle"
  /\ governor' = IF DelayTime(governor) > 0
                   THEN [governor EXCEPT !.ar[p] =
                           [pc |-> "delay", wake |-> governor.now + DelayTime(governor)]]
                   ELSE Stamp(governor, p)
  /\ GovernorRest

\* the timer of delay(delayTime) has fired: applyRateLimit resumes at line 434
RateLimitDelayDone(p) ==
  /\ governor.ar[p].pc = "delay"
  /\ governor.now >= governor.ar[p].wake
  /\ governor' = Stamp(governor, p)
  /\ GovernorRest

\* the rest of translate is over
ProviderCallDone(p) ==
  /\ governor.ar[p].pc = "fetch"
  /\ governor' = [governor EXCEPT !.ar[p].pc = "idle"]
  /\ GovernorRest

\* time passes
Tick ==
  /\ governor.now < MaxTime
  /\ governor' = [governor EXCEPT !.now = @ + TickMs]
  /\ GovernorRest

GovernorInit ==
  /\ apiKeys = <<>>
  /\ currentKeyIndex = 0
  /\ poolOut = None
  /\ poolLog = <<>>
  /\ apiLimits = None
  /\ tt = <<>>
  /\ OrchIdle

GovernorNext ==
  \/ \E p \in 1..Requesters : ApplyRateLimit(p)
  \/ \E p \in 1..Requesters : RateLimitDelayDone(p)
  \/ \E p \in 1..Requesters : ProviderCallDone(p)
  \/ Tick

GovernorSpec == GovernorInit /\ [][GovernorNext]_vars

PoolNext == PoolCurrentKey \/ PoolSwitchKey \/ PoolReset

PoolSpec == PoolInit /\ [][PoolNext]_vars

HostedNext ==
  \/ TranslateTextCall(1)
  \/ ProbeDone(1)
  \/ PaceDone(1)
  \/ ReprobeDone(1)
  \/ CompleteDone(1)
  \/ CooldownDone(1)
  \/ BackoffDone(1)
  \/ CooldownOuterDone(1)

HostedSpec == HostedInit /\ [][HostedNext]_vars

\* the event loop runs every continuation whose await has completed
HostedFair == HostedSpec /\ WF_vars(HostedNext)

\* two concurrent translateText calls on one AiTranslationService, with a pool
\* of RacePool credentials, each followed until its first sleep(4000)
RacePool == 3
Racers == {1, 2}

RaceInit ==
  /\ apiKeys = SubSeq(ConfiguredKeys, 1, RacePool)
  /\ currentKeyIndex = 0
  /\ apiLimits = NoLimits
  /\ tt = [r \in Racers |-> IdleFrame]
  /\ poolOut = None
  /\ poolLog = <<>>
  /\ OrchIdle

RaceNext ==
  \/ \E r \in Racers : TranslateTextCall(r)
  \/ \E r \in Racers : ProbeDone(r)
  \/ \E r \in Racers : PaceDone(r)
  \/ \E r \in Racers : ReprobeDone(r)
  \/ \E r \in Racers : CompleteDone(r)
  \/ \E r \in Racers : BackoffDone(r)

RaceSpec == RaceInit /\ [][RaceNext]_vars

\* clients of the ApiKeyManager next to one translateText call, which is
\* followed until its first sleep
CredentialsInit ==
  /\ apiKeys \in {SubSeq(ConfiguredKeys, 1, n) : n \in 0..MaxPool}
  /\ currentKeyIndex = 0
  /\ apiLimits = NoLimits
  /\ tt = [r \in {1} |-> IdleFrame]
  /\ poolOut = [op |-> "new", ok |-> TRUE, error |-> None, key |-> None]
  /\ poolLog = <<>>
  /\ OrchIdle

CredentialsNext ==
  \/ PoolCurrentKey
  \/ PoolSwitchKey
  \/ PoolReset
  \/ TranslateTextCall(1)
  \/ ProbeDone(1)
  \/ CompleteDone(1)

CredentialsSpec == CredentialsInit /\ [][CredentialsNext]_vars

(***************************************************************************)
(* Claims on ApiKeyManager and translateText                               *)
(***************************************************************************)

\* C1: a translateText call that has started eventually ends, by returning a
\* translation or by raising an error, whatever the provider answers.
C1_TranslateTextTerminates ==
  [](Running(tt[1]) => <>(~Running(tt[1])))

\* C2: one translateText call goes round its outer loop at most
\* maxRetriesPerKey * poolSize times, and a call that has used up that many
\* rounds without a success has failed with the all-keys-failed error.
C2_OuterIterationsBounded ==
  \A r \in DOMAIN tt :
    /\ tt[r].outerIters <= maxRetriesPerKey * GetKeyCount(apiKeys)
    /\ (/\ tt[r].pc = "failed"
        /\ HasKeys(apiKeys)) => tt[r].result.kind = "API_ERROR"

\* C6: when a completion request on credential i fails with a rate-limit error
\* and the next completion request of the call succeeds, that request was made
\* with credential (i + 1) mod poolSize (one rotation, as long as no quota probe
\* failed in between), the call returns its trimmed content and the cursor is
\* at (i + 1) mod poolSize on return.
C6_RateLimitRotatesOnce ==
  \A r \in DOMAIN tt :
    LET f    == tt[r]
        next == (f.prevReq.key + 1) % GetKeyCount(apiKeys) IN
    (f.pc = "returned" /\ f.prevReq.outcome = "rate") =>
      /\ ~f.lastReq.afterProbeFailure => f.lastReq.key = next
      /\ f.lastReq.key = next =>
           /\ currentKeyIndex = next
           /\ f.result = [kind |-> "ok", text |-> Trim(f.lastReq.content)]
           /\ CurrentKey(apiKeys, currentKeyIndex).key = apiKeys[next + 1]

C6_Witness ==
  \E r \in DOMAIN tt :
    /\ tt[r].pc = "returned"
    /\ tt[r].prevReq.outcome = "rate"
    /\ ~tt[r].lastReq.afterProbeFailure
    /\ GetKeyCount(apiKeys) >= 2
    /\ tt[r].prevReq.key = 0
    /\ currentKeyIndex = 1

\* C7: from cursor 0, the i-th switchKey call selects credential i mod N, so N
\* successive calls select each of the N credentials exactly once and leave the
\* cursor at 0.
C7_RoundRobin ==
  HasKeys(apiKeys) =>
    LET n == GetKeyCount(apiKeys) IN
    /\ \A i \in 1..Len(poolLog) : poolLog[i] = i % n
    /\ Len(poolLog) > 0 => currentKeyIndex = poolLog[Len(poolLog)]
    /\ Len(poolLog) = n =>
         /\ currentKeyIndex = 0
         /\ {poolLog[i] : i \in 1..n} = 0..(n - 1)
    /\ (poolOut.op = "switchKey") =>
         poolOut = [op |-> "switchKey", ok |-> TRUE, error |-> None,
                    key |-> apiKeys[currentKeyIndex + 1]]

C7_Witness ==
  /\ GetKeyCount(apiKeys) >= 2
  /\ Len(poolLog) = GetKeyCount(apiKeys)
  /\ poolOut.op = "switchKey"

\* C3: for every batch, method order and provider behaviour, the keys of the
\* translations translate returns are keys of the batch
C3_TranslationsWithinBatch ==
  last.status = "ok" =>
    OKeySet(last.translations) \subseteq Range(last.batch.keys)

\* a call that merged cache hits with what Ollama returned, Ollama's answer
\* holding a key that was not requested
C3_Witness ==
  /\ last.status = "ok"
  /\ last.unrequested
  /\ last.cacheHits > 0
  /\ last.cacheMisses > 0

\* C4 as stated: a batch of fewer keys than the capacity, translated again
\* after a successful call with no clearCache in between, is served with
\* cacheHits equal to its number of keys and without any provider
C4_RoundTripAsStated ==
  (last.status # "none" /\ last.repeat /\ Len(last.batch.keys) < cacheSize) =>
    /\ last.status = "ok"
    /\ last.cacheHits = Len(last.batch.keys)
    /\ last.called = {}

\* C4, amended: if moreover the first call returned a translation for every
\* key of the batch and evicted no entry, the second call is served with
\* cacheHits equal to the number of distinct keys and without any provider
C4_RoundTrip ==
  (last.status # "none" /\ last.repeat /\ last.cleanRepeat
     /\ Len(last.batch.keys) < cacheSize) =>
    /\ last.status = "ok"
    /\ last.cacheHits = Cardinality(Range(last.batch.keys))
    /\ last.called = {}

\* a second call of a batch of two keys, served from the cache
C4_Witness ==
  /\ last.status = "ok"
  /\ last.repeat
  /\ last.cleanRepeat
  /\ Len(last.batch.keys) = 2
  /\ last.cacheHits = 2
  /\ last.provider = "cache"

\* C5: whenever a method returned a translation for some key of the batch,
\* translate returns an outcome instead of raising
C5_NeverFailsWholesale ==
  (last.status = "error" /\ last.kind = "TranslationError") => last.produced = {}

\* C8: when cacheSize + 1 entries of distinct cache keys have been set into an
\* empty cache, the first of them is gone and all the others are retrievable
C8_EvictsFirstInserted ==
  (setLog # LogOver /\ Len(setLog) = cacheSize + 1) =>
    /\ ~OHas(translationCache, setLog[1].k)
    /\ \A i \in 2..Len(setLog) :
         /\ OHas(translationCache, setLog[i].k)
         /\ OGet(translationCache, setLog[i].k) = setLog[i].v
    /\ OSize(translationCache) = cacheSize

\* cacheSize + 1 distinct entries were set, by translate calls in both directions
C8_Witness ==
  /\ setLog # LogOver
  /\ Len(setLog) = cacheSize + 1
  /\ last.status = "ok"
  /\ last.evicted

\* C9: the cache never holds more than cacheSize entries, and getCacheStats
\* never reports a size above maxSize
C9_SizeWithinMaxSize ==
  /\ OSize(translationCache) <= cacheSize
  /\ stats # <<>> => stats[1].size <= stats[1].maxSize

\* getCacheStats reports a full cache after an eviction
C9_Witness ==
  /\ stats # <<>>
  /\ stats[1].size = stats[1].maxSize
  /\ last.status = "ok"
  /\ last.evicted

\* C10: a key reported in the errors of the outcome has no cache entry
C10_FailedKeysNotCached ==
  last.status = "ok" =>
    \A k \in last.errors :
      ~OHas(translationCache,
            GenerateCacheKey(k, last.batch.sourceLang, last.batch.targetLang))

(***************************************************************************)
(* Claims on the methods of TranslationService.translate                   *)
(***************************************************************************)
\* the batch of the last call asked for the local method only, no fallback
LocalOnly ==
  /\ last.status # "none"
  /\ last.trace.options.methods = <<"local">>
  /\ ~IsIncluded("yes", last.trace.options.fallbackOptions)

\* C11 as stated: a valid batch with methods = [local] and no fallback gets,
\* for every requested key, its source text unchanged, with provider local
\* and without a call to OpenRouter or Ollama
C11_LocalOnlyAsStated ==
  LocalOnly =>
    /\ last.status = "ok"
    /\ \A k \in Range(last.batch.keys) :
         OHas(last.translations, k) /\ OGet(last.translations, k) = last.batch.texts[k]
    /\ last.provider = "local"
    /\ last.called \subseteq {"local"}

\* C11, amended: such a batch gets, for every requested key, the cached
\* translation if the key has a cache entry and else its source text
\* unchanged, with provider local unless every key was cached (then cache),
\* and without a call to OpenRouter or Ollama
C11_LocalOnly ==
  LocalOnly =>
    /\ last.status = "ok"
    /\ \A k \in Range(last.batch.keys) :
         /\ OHas(last.translations, k)
         /\ OGet(last.translations, k) =
              IF OHas(last.trace.cached, k) THEN OGet(last.trace.cached, k)
                                            ELSE last.batch.texts[k]
    /\ last.provider = IF last.cacheMisses = 0 THEN "cache" ELSE "local"
    /\ last.called \subseteq {"local"}

\* a second call, local only, of a key that is not cached
C11_Witness ==
  /\ LocalOnly
  /\ last.trace.n = 2
  /\ last.cacheMisses > 0
  /\ last.called = {"local"}
  /\ last.status = "ok"

\* the calls of providers other than the local one
IsAi(call) == call.service \in {"openrouter", "ollama"}

\* C12: when the local method returns fewer translations than the batch has
\* keys and fallbackOptions permits, the ai method is called exactly once, right
\* after, on exactly the keys local returned no translation for; what it
\* returns is merged into the local result and fallbackUsed is true.  When
\* fallbackOptions does not permit, no ai call follows the local one.
C12_FallbackEscalation ==
  last.status # "none" =>
    LET calls     == last.trace.calls
        permitted == IsIncluded("yes", last.trace.options.fallbackOptions) IN
    \A i \in DOMAIN calls :
      (calls[i].service = "local" /\ ~calls[i].threw) =>
        IF OSize(calls[i].translations) < Len(calls[i].keys) /\ permitted
          THEN /\ i + 1 = Len(calls)
               /\ IsAi(calls[i + 1])
               /\ Range(calls[i + 1].keys) =
                    Range(calls[i].keys) \ OKeySet(calls[i].translations)
               /\ ~calls[i + 1].threw =>
                    /\ last.status = "ok"
                    /\ last.trace.fallbackUsed = Flag(TRUE)
                    /\ last.translations =
                         OMerge(calls[i].translations, calls[i + 1].translations)
                    /\ last.errors = calls[i].errors \cup calls[i + 1].errors
          ELSE i = Len(calls)

\* did the m-th method of the list, its fallback included, complete with at
\* least one translation
MethodYielded(calls, m) ==
  /\ \A i \in DOMAIN calls : calls[i].method = m => ~calls[i].threw
  /\ \E i \in DOMAIN calls : calls[i].method = m /\ OSize(calls[i].translations) > 0

MethodFailed(calls, m) == \E i \in DOMAIN calls : calls[i].method = m /\ calls[i].threw

\* the methods translate used for the batch of the last call
MethodsUsed == DetermineTranslationMethods(last.trace.options)

\* C14: when every method of the list failed, translate throws a
\* TranslationError whose message carries the message of the error of the last
\* method; and a method that failed and is not the last of the list is
\* followed by a call within the next method
C14_AllMethodsFailed ==
  (last.status # "none" /\ last.trace.calls # <<>>) =>
    LET calls   == last.trace.calls
        methods == MethodsUsed IN
    /\ (\A m \in DOMAIN methods : MethodFailed(calls, m)) =>
         /\ last.status = "error"
         /\ last.kind = "TranslationError"
         /\ last.translations = <<>>
         /\ last.trace.message = "All translation methods failed"
         /\ last.trace.cause = calls[Len(calls)].message
         /\ calls[Len(calls)].method = Len(methods)
    /\ \A m \in DOMAIN methods :
         (MethodFailed(calls, m) /\ m < Len(methods)) =>
           \E i \in DOMAIN calls : calls[i].method = m + 1

\* two methods failed, with different errors
C14_Witness ==
  /\ last.status = "error"
  /\ last.trace.calls # <<>>
  /\ Len(MethodsUsed) = 2
  /\ \A m \in 1..2 : MethodFailed(last.trace.calls, m)
  /\ \E i \in DOMAIN last.trace.calls :
       /\ last.trace.calls[i].method = 1
       /\ last.trace.calls[i].threw
       /\ last.trace.calls[i].message # last.trace.cause

\* the batch of the last call, as translate was given it
LastBatch == last.batch @@ last.trace.options

\* the invalid batches C15 names
InvalidAsClaimed(b) ==
  \/ b.sourceLang = b.targetLang
  \/ b.sourceLang \notin SupportedLanguages
  \/ b.targetLang \notin SupportedLanguages
  \/ Len(b.keys) = 0
  \/ \E i \in DOMAIN b.keys : b.keys[i] \notin DOMAIN b.texts
  \/ IsArray(b.methods) /\ Range(b.methods) \notin SUBSET {"local", "ai"}
  \/ IsArray(b.methods) /\ Duplicates(b.methods)

\* a step at which a call of translate with such a batch ends
InvalidCallEnds ==
  /\ last' # last
  /\ last' # NoLast
  /\ InvalidAsClaimed(LastBatch')

\* what C15 says of such a step, but for the class of the error: translate
\* throws in the step it is called in, no provider was called, no cache hit
\* or miss was counted and the cache is as it was
Immediate ==
  /\ req[1].pc = "idle"
  /\ UNCHANGED <<req, translationCache, setLog>>
  /\ last'.status = "error"
  /\ last'.trace.calls = <<>>
  /\ last'.called = {}
  /\ last'.cacheHits = 0
  /\ last'.cacheMisses = 0

HealthDone == health.pc = "idle" /\ health.caller # None

\* the providers configured, in the order checkHealth probes them
Configured ==
  (IF HasKeys(apiKeys) THEN <<"openrouter">> ELSE <<>>)
    \o (IF health.baseURL THEN <<"ollama">> ELSE <<>>)

\* was the probe answered as a healthy provider answers
Healthy(probe) ==
  IF probe.provider = "ollama" THEN HealthTry(probe.reply) = None ELSE probe.reply.ok

\* every configured provider was probed, once, and reported healthy by its
\* own answer alone
ProbedIndependently ==
  /\ Len(health.probes) = Len(Configured)
  /\ \A i \in DOMAIN health.probes :
       /\ health.probes[i].provider = Configured[i]
       /\ health.probes[i].healthy = Healthy(health.probes[i])

AllUnhealthy == \A i \in DOMAIN health.probes : ~health.probes[i].healthy

\* C16 as stated: checkHealth probes every configured provider independently,
\* reports a boolean per provider, and throws ServiceUnavailable if and only
\* if all of them are unhealthy
C16_CheckHealthAsStated ==
  HealthDone =>
    /\ ProbedIndependently
    /\ health.out.threw <=> AllUnhealthy
    /\ health.out.threw => health.out.kind = "ServiceUnavailableError"
    /\ ~health.out.threw =>
         /\ health.out.results # <<>>
         /\ \A i \in DOMAIN health.probes :
              /\ health.probes[i].provider \in DOMAIN health.out.results[1]
              /\ health.out.results[1][health.probes[i].provider] = health.probes[i].healthy

\* C16, amended: both probe every configured provider independently.
\* AiTranslationService.checkHealth throws ServiceUnavailable if and only if no
\* configured provider is healthy, and returns true otherwise.
\* TranslationService.checkHealth never throws: it returns local and cache as
\* true, and ai as false if and only if no configured provider is healthy.
C16_CheckHealth ==
  HealthDone =>
    /\ ProbedIndependently
    /\ health.caller = "ai" =>
         /\ health.out.threw <=> AllUnhealthy
         /\ health.out.threw => health.out.kind = "ServiceUnavailableError"
         /\ health.out.results = <<>>
    /\ health.caller = "translation" =>
         /\ ~health.out.threw
         /\ health.out.results = <<[local |-> TRUE, ai |-> ~AllUnhealthy, cache |-> TRUE]>>

\* AiTranslationService.checkHealth returned: the first provider was unhealthy,
\* the second was probed all the same and was healthy
C16_Witness ==
  /\ HealthDone
  /\ health.caller = "ai"
  /\ Len(health.probes) = 2
  /\ ~health.probes[1].healthy
  /\ health.probes[2].healthy
  /\ ~health.out.threw

\* C17: OllamaService.checkHealth throws ServiceUnavailable when GET /api/tags
\* is not answered or answered non-2xx, and ModelNotFound when it is answered
\* and the configured model is not among the names listed
C17_HealthCheckKinds ==
  \A i \in DOMAIN health.probes :
    LET probe == health.probes[i] IN
    probe.provider = "ollama" =>
      /\ (~probe.reply.reached \/ ~probe.reply.ok) => probe.kind = "ServiceUnavailableError"
      /\ (probe.reply.reached /\ probe.reply.ok /\ ~ModelAvailable(probe.reply.names)) =>
           probe.kind = "ModelNotFoundError"

(***************************************************************************)
(* Claims on OllamaService.translate                                       *)
(***************************************************************************)
\* an OllamaService.translate call has ended
OllamaDone == ollama.pc = "idle" /\ ollama.calls > 0

\* C18: when the deadline of an HTTP call expires, the call is aborted and
\* translate throws an error of the class TranslationTimeoutError
C18_TimeoutKindPreserved ==
  \A i \in DOMAIN ollama.errors :
    ollama.errors[i] = "TranslationTimeoutError" =>
      /\ OllamaDone
      /\ ollama.out.threw
      /\ ollama.out.kind = "TranslationTimeoutError"

\* C19: after an HTTP call that failed with ModelNotFoundError or
\* TranslationTimeoutError no further HTTP call is made for the batch, whatever
\* the retries left: translate has ended, throwing
C19_NonRetryable ==
  \A i \in DOMAIN ollama.errors :
    ollama.errors[i] \in {"ModelNotFoundError", "TranslationTimeoutError"} =>
      /\ i = Len(ollama.errors)
      /\ ollama.calls = i
      /\ OllamaDone
      /\ ollama.out.threw
      /\ ollama.out.thrown = ollama.errors[i]

\* the second HTTP call timed out with a retry left
C19_Witness ==
  /\ OllamaDone
  /\ ollama.maxRetries = 2
  /\ ollama.errors = <<"ServiceUnavailableError", "TranslationTimeoutError">>
  /\ ollama.retries = 1

\* C20: one translate makes at most maxRetries + 1 HTTP calls, every HTTP call
\* but the first follows a failed one, the k-th retry comes after a delay of
\* retryDelay * k, and when the last retry allowed fails translate ends:
\* executeWithRetry throws the error of that HTTP call
C20_BoundedRetries ==
  /\ ollama.calls <= ollama.maxRetries + 1
  /\ \A k \in DOMAIN ollama.delays : ollama.delays[k] = retryDelay * k
  /\ ollama.calls > 0 => ollama.calls = Len(ollama.delays) + (IF ollama.pc = "delay" THEN 0 ELSE 1)
  /\ ollama.pc = "delay" => Len(ollama.errors) = Len(ollama.delays)
  /\ Len(ollama.errors) = ollama.maxRetries + 1 =>
       /\ OllamaDone
       /\ ollama.out.threw
       /\ ollama.out.thrown = ollama.errors[Len(ollama.errors)]

\* every HTTP call allowed was made and failed
C20_Witness ==
  /\ OllamaDone
  /\ ollama.maxRetries = 2
  /\ ollama.calls = 3
  /\ Len(ollama.errors) = 3
  /\ ollama.delays = <<retryDelay, 2 * retryDelay>>
  /\ ollama.out.thrown = "ServiceUnavailableError"

\* the keys of the batch answered, the answer and what was made of it
Asked    == Range(OllamaRequest.keys)
Answered == ollama.answer[1]

C22_PaceThenReprobe ==
  [][/\ (/\ tt[1].pc = "probe" /\ tt'[1].pc \in {"pace", "complete"}
         /\ apiLimits'.present /\ apiLimits'.requests <= 0) =>
          /\ tt'[1].pc = "pace"
          /\ tt'[1].paceMs = IF apiLimits'.interval = "60s" THEN 60000 ELSE 5000
     /\ tt[1].pc = "pace" =>
          /\ tt'[1].pc = "reprobe"
          /\ tt'[1].lastReq = tt[1].lastReq
          /\ apiLimits' = apiLimits]_vars

\* the call has slept 60000 ms and probes the quota again
C22_Witness ==
  /\ tt[1].pc = "reprobe"
  /\ apiLimits.requests = 0
  /\ apiLimits.interval = "60s"
  /\ tt[1].paceMs = 60000

\* C23: whatever the number of concurrent callers of translate and however
\* they interleave, two consecutive stamps of lastRequestTime are at least
\* minRequestInterval apart
C23_StampsSpaced ==
  \A i \in 1..(Len(governor.stamps) - 1) :
    governor.stamps[i + 1] - governor.stamps[i] >= minRequestInterval

\* both calls are in the sleep that follows a rate-limit failure of a
\* completion request made with the first credential, and no probe has failed
BothRateLimitedOnFirst ==
  \A r \in Racers :
    /\ tt[r].pc = "cooldown"
    /\ tt[r].totalAttempts = 0
    /\ tt[r].lastReq.key = 0
    /\ tt[r].lastReq.outcome = "rate"

\* C24: when two concurrent translateText calls sharing a pool of three
\* credentials have both seen a rate-limit failure on the same credential,
\* both have switched the credential: the cursor is two places further, past
\* a credential with which neither call has made a completion request
C24_RotationRace ==
  BothRateLimitedOnFirst =>
    /\ currentKeyIndex = 2
    /\ \A r \in Racers : tt[r].lastReq.key # 1 /\ tt[r].prevReq.key # 1

\* the interleaving has happened: the cursor is on the third credential and
\* the second was never used
C24_Witness ==
  /\ Len(apiKeys) = 3
  /\ BothRateLimitedOnFirst
  /\ currentKeyIndex = 2
  /\ \A r \in Racers : tt[r].prevReq = NoReq

\* C25: when a completion request is answered without text (the content of
\* its first choice, trimmed, is empty), translateText does not return: no
\* empty translation is handed to the caller and the quota counter is not
\* decremented for that answer
C25_EmptyContentFails ==
  [][(tt[1].pc = "complete" /\ Trim(tt'[1].lastReq.content) = <<>>) =>
       /\ tt'[1].pc # "returned"
       /\ apiLimits' = apiLimits]_vars

\* the answer parsed, and the requested keys for which its object has a value
Parsed    == parsing[1]
InObject  == {k \in Asked : k \in DOMAIN Parsed.reply}
WithValue == {k \in Asked : k \in DOMAIN Parsed.reply /\ Parsed.reply[k] # ""}

\* the text is prose without braces around one valid JSON object
ProseAroundObject == Parsed.done /\ Parsed.style \in {"json", "pretty"}

\* what is returned is what the object holds for the keys of wanted, and
\* nothing else
ReturnsExactly(wanted) ==
  /\ ~Parsed.out.threw
  /\ OKeySet(Parsed.out.accepted) = wanted
  /\ \A k \in wanted :
       OGet(Parsed.out.accepted, k) =
         PostProcessTranslation(Parsed.reply[k], OllamaRequest.targetLang)

NeedsFallback ==
  /\ Parsed.done
  /\ Parsed.text # <<>>
  /\ \/ MatchObject(Parsed.text) = <<>>
     \/ /\ ~JsonParse(MatchObject(Parsed.text)).ok
        /\ ~JsonParse(CleanJsonResponse(MatchObject(Parsed.text))).ok

\* C27: when the text of the answer holds no JSON object, or one that cannot
\* be parsed even after the repairs, the parser goes over the lines of the raw
\* text and returns the translations of the requested keys found on lines of
\* the form "key": "value", failing only when it finds none
C27_FallbackToLines ==
  NeedsFallback => Parsed.out = FallbackParseResponse(Parsed.text, OllamaRequest)

\* with an empty pool: the last currentKey or switchKey of a client failed
\* with NO_API_KEYS_AVAILABLE, and translateText has failed or was not called,
\* without a quota probe or a completion request
EmptyPoolFails ==
  /\ poolOut.op \in {"currentKey", "switchKey"} =>
       ~poolOut.ok /\ poolOut.error = "NO_API_KEYS_AVAILABLE"
  /\ tt[1].pc \in {"idle", "failed"}
  /\ tt[1].pc = "failed" => tt[1].result.kind = "ServiceUnavailable"
  /\ tt[1].outerIters = 0
  /\ tt[1].lastReq = NoReq
  /\ apiLimits = NoLimits

\* C28: with an empty pool, currentKey and switchKey fail with the
\* no-keys-available error and leave the cursor where it is, and translateText
\* fails before it issues a quota probe or a completion request
C28_EmptyPool ==
  [][apiKeys = <<>> => (currentKeyIndex' = currentKeyIndex /\ EmptyPoolFails')]_vars

\* with an empty pool, switchKey has failed and translateText has failed
C28_Witness ==
  /\ apiKeys = <<>>
  /\ poolOut.op = "switchKey"
  /\ ~poolOut.ok
  /\ tt[1].pc = "failed"
  /\ currentKeyIndex = 0

\* the completion request of the call has just failed
CompletionFailed == tt[1].pc = "complete" /\ tt'[1].pc # "returned"

\* that failure is a rate-limit or quota error, or the maxRetriesPerKey-th
\* failure of the inner loop
MustSwitch ==
  \/ tt'[1].lastReq.outcome = "rate"
  \/ tt'[1].retries >= maxRetriesPerKey

\* C29: within one translateText call, a completion failure that is neither a
\* rate-limit or quota error nor the maxRetriesPerKey-th failure on the
\* credential leaves the cursor where it is, and the next completion request
\* is made with the same credential; a rate-limit or quota error, or the
\* maxRetriesPerKey-th failure, switches the credential exactly once; so at
\* most maxRetriesPerKey completion requests are made between two switches
C29_TwoTierRetry ==
  [][/\ (CompletionFailed /\ ~MustSwitch) =>
          /\ tt'[1].pc = "backoff"
          /\ currentKeyIndex' = currentKeyIndex
     /\ tt[1].pc = "backoff" =>
          /\ tt'[1].pc = "complete"
          /\ tt'[1].key = tt[1].lastReq.key
          /\ currentKeyIndex' = currentKeyIndex
     /\ (CompletionFailed /\ MustSwitch) =>
          /\ tt'[1].pc = "cooldown"
          /\ currentKeyIndex' = (currentKeyIndex + 1) % GetKeyCount(apiKeys)
     /\ tt[1].pc = "cooldown" => currentKeyIndex' = currentKeyIndex
     /\ tt'[1].sinceSwitch <= maxRetriesPerKey]_vars

\* the third failure in a row on the first of two credentials, none of them a
\* rate-limit error, has switched to the second
C29_Witness ==
  /\ GetKeyCount(apiKeys) = 2
  /\ tt[1].pc = "cooldown"
  /\ tt[1].retries = maxRetriesPerKey
  /\ tt[1].lastReq.outcome = "other"
  /\ tt[1].prevReq.outcome = "other"
  /\ tt[1].lastReq.key = 0
  /\ tt[1].prevReq.key = 0
  /\ currentKeyIndex = 1

\* the keys of the call that finished last that were found in the cache
Hits == OKeySet(last.trace.cached)

\* no provider was called with a key found in the cache, and a key found in
\* the cache is returned with the value found
MissesOnly ==
  /\ \A i \in DOMAIN last.trace.calls : Range(last.trace.calls[i].keys) \cap Hits = {}
  /\ last.status = "ok" =>
       \A k \in Hits : /\ OHas(last.translations, k)
                       /\ OGet(last.translations, k) = OGet(last.trace.cached, k)

\* every key of the batch was found in the cache
AllHits == last.batch.keys # <<>> /\ Range(last.batch.keys) \subseteq Hits

\* C30 as stated: no provider is called with a key that was found in the
\* cache, a key found in the cache is returned with the cached value, and when
\* every key of the batch is found in the cache no provider is called and
\* cacheHits is the number of keys of the batch
C30_MissesOnlyAsStated ==
  last.status # "none" =>
    /\ MissesOnly
    /\ AllHits =>
         /\ last.status = "ok"
         /\ last.trace.calls = <<>>
         /\ last.cacheHits = Len(last.batch.keys)

\* C30: the same, cacheHits being the number of distinct keys of the batch
C30_MissesOnly ==
  last.status # "none" =>
    /\ MissesOnly
    /\ AllHits =>
         /\ last.status = "ok"
         /\ last.trace.calls = <<>>
         /\ last.provider = "cache"
         /\ last.cacheHits = Cardinality(Range(last.batch.keys))

\* a second call with one key found in the cache and one given to a provider
C30_Witness ==
  /\ last.status = "ok"
  /\ last.trace.n = 2
  /\ Hits = {"a"}
  /\ Len(last.trace.calls) > 0
  /\ last.trace.calls[1].keys = <<"b">>
  /\ last.cacheHits = 1
  /\ last.cacheMisses = 1

(***************************************************************************)
(* C31: what a successful translate leaves in the cache                    *)
(***************************************************************************)
\* caller p's translate returns successfully in this step
Succeeds(p) == req[p].pc = "pending" /\ req'[p].pc = "idle" /\ last'.status = "ok"

\* the keys whose translations the providers have just given to caller p
NewKeys(p) == {k \in Range(req[p].keysToTranslate) : OHas(last'.translations, k)}

CacheKeyOf(p, k) == GenerateCacheKey(k, req[p].request.sourceLang, req[p].request.targetLang)

\* every newly obtained pair is in the cache with the value returned
AllNewCached(p) ==
  \A k \in NewKeys(p) :
    /\ OHas(translationCache', CacheKeyOf(p, k))
    /\ OGet(translationCache', CacheKeyOf(p, k)) = OGet(last'.translations, k)

\* none of the newly obtained triples was put in the cache by another call
\* between this call's lookup and its return
NoneCachedMeanwhile(p) == \A k \in NewKeys(p) : ~OHas(translationCache, CacheKeyOf(p, k))

\* C31 as stated: after translate returns successfully with at most capacity
\* newly obtained pairs, every newly obtained pair is in the cache under its
\* triple with exactly the value returned to the caller
C31_NewPairsCachedAsStated ==
  [][\A p \in Callers :
       Succeeds(p) /\ Cardinality(NewKeys(p)) <= cacheSize => AllNewCached(p)]_vars

\* C31: after translate returns successfully with at most capacity newly
\* obtained pairs, none of whose triples another call has cached since this
\* call looked them up, every newly obtained pair is in the cache under its
\* triple with exactly the value returned to the caller
C31_NewPairsCached ==
  [][\A p \in Callers :
       Succeeds(p) /\ Cardinality(NewKeys(p)) <= cacheSize /\ NoneCachedMeanwhile(p)
         => AllNewCached(p)]_vars

\* three new pairs have gone into a cache that held an entry of another
\* language pair, and all three are there with the values returned
C31_Witness ==
  /\ last # NoLast
  /\ last.status = "ok"
  /\ last.cacheMisses = 3
  /\ last.evicted
  /\ \A k \in {"a", "b", "c"} :
       /\ OHas(translationCache, GenerateCacheKey(k, "en", "ru"))
       /\ OGet(translationCache, GenerateCacheKey(k, "en", "ru")) = OGet(last.translations, k)

(***************************************************************************)
(* C32: re-inserting a cached triple into a full cache                     *)
(***************************************************************************)
\* caller p returns one newly obtained pair whose triple another call has
\* cached since p looked it up, and the cache is full
ReinsertsIntoFull(p) ==
  /\ Succeeds(p)
  /\ Cardinality(NewKeys(p)) = 1
  /\ \A k \in NewKeys(p) : OHas(translationCache, CacheKeyOf(p, k))
  /\ OSize(translationCache) >= cacheSize

\* C32: re-inserting a triple that is already cached while the cache is full
\* (two concurrent translate calls missed on the same key and both populate
\* the cache) evicts no entry: the cache holds the same triples afterwards
C32_ReinsertEvictsNothing ==
  [][\A p \in Callers :
       ReinsertsIntoFull(p) => OKeySet(translationCache') = OKeySet(translationCache)]_vars

(***************************************************************************)
(* C33: the local count of remaining requests                              *)
(***************************************************************************)
\* the completion request of translateText is answered in this step
Completes == tt # <<>> /\ tt[1].pc = "complete"

CompletesWell == Completes /\ tt'[1].pc = "returned"

\* C33 as stated: each successful completion decrements the local
\* remaining-request counter by exactly one, a failed completion does not
\* decrement it, and no decrement drives the counter below 0
C33_DecrementAsStated ==
  [][/\ CompletesWell => apiLimits'.requests = apiLimits.requests - 1
     /\ Completes /\ ~CompletesWell => apiLimits' = apiLimits
     /\ Completes => apiLimits'.requests >= 0]_vars

\* C33: each successful completion decrements the local remaining-request
\* counter by exactly one when it is above 0 and leaves it at 0 when it is 0,
\* a failed completion does not change it, and no decrement drives the counter
\* below 0
C33_Decrement ==
  [][/\ CompletesWell /\ apiLimits.requests > 0
          => apiLimits' = [apiLimits EXCEPT !.requests = apiLimits.requests - 1]
     /\ CompletesWell /\ apiLimits.requests <= 0 => apiLimits' = apiLimits
     /\ Completes /\ ~CompletesWell => apiLimits' = apiLimits
     /\ Completes => apiLimits'.requests >= 0]_vars

\* a completion has succeeded in a call that never had to wait for quota:
\* the probe reported one remaining request and the counter is now 0
C33_Witness ==
  /\ tt # <<>>
  /\ tt[1].pc = "returned"
  /\ tt[1].paceMs = 0
  /\ tt[1].outerIters = 1
  /\ apiLimits.present
  /\ apiLimits.requests = 0

(***************************************************************************)
(* C34: the credential of the probe and of the completion request          *)
(***************************************************************************)
\* C34: within a single translateText call, whenever a completion request is
\* issued, the call's most recent quota probe was made with the credential
\* that the completion request uses
C34_ProbedBeforeUse ==
  tt # <<>> /\ tt[1].pc = "complete" => tt[1].key = tt[1].probeKey

\* a completion request is out on the second credential, after a rotation
C34_Witness ==
  /\ tt # <<>>
  /\ tt[1].pc = "complete"
  /\ tt[1].key = 1
  /\ tt[1].probeKey = 1
  /\ tt[1].startIndex = 0
  /\ tt[1].lastReq # NoReq

(***************************************************************************)
(* C35: a call whose quota probes all fail                                 *)
(***************************************************************************)
\* no quota probe of the call has been answered well so far: the call has
\* neither waited for quota nor issued a completion request
NoProbeAnswered(f) ==
  /\ f.pc \in {"probe", "cooldownOuter", "failed"}
  /\ f.lastReq = NoReq
  /\ f.paceMs = 0
  /\ f.sinceSwitch = 0

\* C35: if every quota probe fails, the call rotates after each failed probe
\* except the last, issues no completion request, performs exactly
\* maxRetriesPerKey * poolSize probes and then ends with an error; the cursor
\* ends (maxRetriesPerKey * poolSize - 1) mod poolSize positions after its start
C35_AllProbesFail ==
  tt # <<>> /\ HasKeys(apiKeys) /\ NoProbeAnswered(tt[1]) =>
    LET f      == tt[1]
        n      == GetKeyCount(apiKeys)
        probes == maxRetriesPerKey * n IN
    /\ f.outerIters <= probes
    /\ f.pc = "probe" =>
         /\ f.totalAttempts = f.outerIters - 1
         /\ currentKeyIndex = (f.startIndex + f.totalAttempts) % n
    /\ f.pc = "cooldownOuter" =>
         /\ f.totalAttempts = f.outerIters
         /\ f.totalAttempts < probes
         /\ currentKeyIndex = (f.startIndex + f.totalAttempts) % n
    /\ f.pc = "failed" =>
         /\ f.result.kind = "API_ERROR"
         /\ f.outerIters = probes
         /\ f.totalAttempts = probes
         /\ currentKeyIndex = (f.startIndex + ((probes - 1) % n)) % n

\* a call on a pool of two credentials has ended after six failed probes
C35_Witness ==
  /\ tt # <<>>
  /\ GetKeyCount(apiKeys) = 2
  /\ NoProbeAnswered(tt[1])
  /\ tt[1].pc = "failed"
  /\ tt[1].outerIters = maxRetriesPerKey * 2
  /\ currentKeyIndex = (tt[1].startIndex + 1) % 2

(***************************************************************************)
(* C36: translations and per-key failures of one outcome                   *)
(***************************************************************************)
\* C36: in every outcome that translate returns, no key is both in the
\* translations map and in the list of per-key failures
C36_TranslatedOrFailed ==
  last # NoLast /\ last.status = "ok" => OKeySet(last.translations) \cap last.errors = {}

(***************************************************************************)
(* C37: a translate that fails leaves the cache alone                      *)
(***************************************************************************)
\* translate throws in this step: the request is rejected by the validation,
\* or every method has failed
RejectedNow ==
  /\ req' = req
  /\ last' # NoLast
  /\ last'.status = "error"
  /\ last'.kind \in {"ValidationError", "UnsupportedLanguageError"}
  /\ ~last'.clearedSince

MethodsFailedNow ==
  \E p \in DOMAIN req :
    req[p].pc = "pending" /\ req'[p].pc = "idle" /\ last'.status = "error"

\* C37: when translate fails (validation error, or all methods failed), the
\* cache is left exactly as it was before the call: no entry added,
\* overwritten or evicted
C37_FailureKeepsCache ==
  [][RejectedNow \/ MethodsFailedNow => translationCache' = translationCache]_vars

\* all methods have failed for a call made with entries in the cache, and
\* the entries are still there
C37_Witness ==
  /\ last # NoLast
  /\ last.status = "error"
  /\ last.kind = "TranslationError"
  /\ ~last.clearedSince
  /\ OSize(translationCache) > 0

(***************************************************************************)
(* C38: cache hits and cache misses add up                                 *)
(***************************************************************************)
\* C38: for every successful translate of a batch with unique keys,
\* cacheHits + cacheMisses is the number of requested keys
C38_HitsPlusMisses ==
  last # NoLast /\ last.status = "ok" /\ ~Duplicates(last.batch.keys) =>
    last.cacheHits + last.cacheMisses = Len(last.batch.keys)

\* a batch of two keys has been translated with one key from the cache and
\* one from a provider
C38_Witness ==
  /\ last # NoLast
  /\ last.status = "ok"
  /\ Len(last.batch.keys) = 2
  /\ ~Duplicates(last.batch.keys)
  /\ last.cacheHits = 1
  /\ last.cacheMisses = 1

====
